---- MODULE Spec2Model ----
(***************************************************************************)
(* A model of the configuration store (agentforge/config.py) and of the    *)
(* action-selection run cycle (agentforge/agents/ActionSelectionAgent.py). *)
(*                                                                         *)
(* Python values are modelled as tagged nodes: a dict is an ordered        *)
(* sequence of key/value pairs (Python dicts keep insertion order), a list *)
(* a sequence of values, and strings, booleans and None are leaves.        *)
(***************************************************************************)
EXTENDS Integers, Sequences, FiniteSets, TLC

VARIABLES
    \* ---- ActionSelectionAgent ----
    apc,          \* position of the run cycle
    actions,      \* self.actions
    action_list,  \* self.data['action_list']
    result,       \* self.result
    output,       \* self.output
    exc,          \* the exception in flight, "none" when there is none
    ret,          \* what run() returned
    log_results,  \* number of log_result('No Relevant Action Found', ...) entries
    log_errors,   \* number of logger.log(..., 'error') and parsing_error entries
    searched,     \* what the storage search handed back in this cycle
    steps,        \* the protocol steps executed in this cycle, in order
    \* ---- Config ----
    lock,         \* Config._lock: the thread holding it, 0 when free
    instance,     \* Config._instance: an object, 0 for None
    objects,      \* number of Config objects allocated so far
    is_initialized, \* hasattr(self, 'is_initialized')
    project_root, \* self.project_root
    config_path,  \* self.config_path
    data,         \* self.data, the configuration tree
    built,        \* a construction call has run __init__'s body to its end
    disk,         \* the files under the .agentforge directory
    sentinels,    \* the directories that hold a .agentforge directory
    pc,           \* each thread's position
    op,           \* the Config operation each thread is in
    root_path,    \* the root_path argument of each thread's construction call
    self,         \* what __new__ returned to each thread
    ref,          \* the instance each thread's last completed Config() gave it
    idx,          \* the last file slot each thread's walk has handled
    existing_data, \* save(): the parsed system.yaml
    raised,       \* the exception each thread's last operation raised
    first_tree,   \* the tree when the first of two consecutive loads ended
    loads,        \* number of completed loads counted for first_tree
    file_read,    \* system.yaml as each thread's save() found it
    bundle,       \* what each thread's last load_agent_data returned, as its caller holds it
    \* ---- resolve_model_overrides applied to drawn inputs ----
    agent,        \* the argument of the call: an agent mapping, a name, a prompts tree
    resolved,     \* what the call returned
    rpc           \* "input" before the call, "done" after it

agentVars == <<apc, actions, action_list, result, output, exc, ret,
               log_results, log_errors, searched, steps>>

overrideVars == <<agent, resolved, rpc>>

threadVars == <<pc, op, root_path, self, ref, idx, existing_data, raised>>

storeVars == <<lock, instance, objects, is_initialized, project_root, config_path, data, built>>

historyVars == <<first_tree, loads, file_read, bundle>>

configVars == <<storeVars, disk, sentinels, threadVars, historyVars>>

vars == <<agentVars, configVars, overrideVars>>

-----------------------------------------------------------------------------
(* Python values *)

None == [k |-> "none", m |-> <<>>, s |-> ""]
Str(x) == [k |-> "str", m |-> <<>>, s |-> x]
Bool(b) == [k |-> "bool", m |-> <<>>, s |-> IF b THEN "true" ELSE "false"]
Pair(key, val) == [key |-> key, val |-> val]
Dict(pairs) == [k |-> "map", m |-> pairs, s |-> ""]
List(items) == [k |-> "list", m |-> [i \in 1..Len(items) |-> Pair("", items[i])], s |-> ""]
EmptyDict == Dict(<<>>)

IsDict(v) == v.k = "map"

\* bool(v): None, False, '' and empty containers are falsy.
Truthy(v) ==
    CASE v.k = "none" -> FALSE
      [] v.k = "bool" -> v.s = "true"
      [] v.k = "str" -> v.s # ""
      [] OTHER -> Len(v.m) > 0

\* key in d
HasKey(d, key) == \E i \in 1..Len(d.m) : d.m[i].key = key

KeyIndex(d, key) == CHOOSE i \in 1..Len(d.m) : d.m[i].key = key

\* d[key]
Get(d, key) == d.m[KeyIndex(d, key)].val

\* d.get(key, default)
GetOr(d, key, default) == IF HasKey(d, key) THEN Get(d, key) ELSE default

\* An assignment that adds a pair even when the key is there.
PutAppend(d, key, val) == [d EXCEPT !.m = Append(@, Pair(key, val))]

\* d[key] = val: an existing key keeps its place, a new key goes last.
Put(d, key, val) ==
    IF HasKey(d, key)
    THEN [d EXCEPT !.m[KeyIndex(d, key)].val = val]
    ELSE [d EXCEPT !.m = Append(@, Pair(key, val))]

\* d.pop(key, None)
Pop(d, key) ==
    [d EXCEPT !.m = SelectSeq(@, LAMBDA p : p.key # key)]

\* list(d.keys())
Keys(d) == [i \in 1..Len(d.m) |-> d.m[i].key]

KeySet(d) == {d.m[i].key : i \in 1..Len(d.m)}

\* {**a, **b}
RECURSIVE PutAll(_, _)
PutAll(a, pairs) ==
    IF pairs = <<>> THEN a
    ELSE PutAll(Put(a, Head(pairs).key, Head(pairs).val), Tail(pairs))

Merge(a, b) == PutAll(a, b.m)

\* a == b for dicts of leaves: the same keys with the same values, in any order.
SameDict(a, b) ==
    /\ KeySet(a) = KeySet(b)
    /\ \A key \in KeySet(a) : Get(a, key) = Get(b, key)

-----------------------------------------------------------------------------
(* The threads, the file slots, and the store before any Config() call *)

\* A key the YAML file leaves out, a file that does not exist, an attribute not set.
Absent == [k |-> "absent", m |-> <<>>, s |-> ""]

NumThreads == 2

Threads == 1..NumThreads

\* The files a configuration directory may hold, in the order os.walk yields
\* them: a directory's own files before the files of its subdirectories.
FileSlots ==
    << [dir |-> <<>>, name |-> "settings", ext |-> "yaml"],
       [dir |-> <<"settings">>, name |-> "system", ext |-> "yaml"],
       [dir |-> <<"settings">>, name |-> "system", ext |-> "yml"],
       [dir |-> <<"settings">>, name |-> "models", ext |-> "yaml"],
       [dir |-> <<"prompts">>, name |-> "agent", ext |-> "yaml"],
       [dir |-> <<"prompts">>, name |-> "notes", ext |-> "txt"] >>

Slots == 1..Len(FileSlots)

NoFiles == [j \in Slots |-> Absent]

\* The store before any Config() call.
StoreAtRest ==
    /\ lock = 0
    /\ instance = 0
    /\ objects = 0
    /\ is_initialized = FALSE
    /\ project_root = "unset"
    /\ config_path = "unset"
    /\ built = FALSE
    /\ sentinels = {"/proj", "/other"}
    /\ pc = [t \in Threads |-> "idle"]
    /\ op = [t \in Threads |-> "none"]
    /\ root_path = [t \in Threads |-> ""]
    /\ self = [t \in Threads |-> 0]
    /\ ref = [t \in Threads |-> 0]
    /\ idx = [t \in Threads |-> 0]
    /\ existing_data = [t \in Threads |-> None]
    /\ raised = [t \in Threads |-> "none"]
    /\ first_tree = None
    /\ loads = 0
    /\ file_read = [t \in Threads |-> None]
    /\ bundle = [t \in Threads |-> None]

-----------------------------------------------------------------------------
(* ActionSelectionAgent: the inputs of one run cycle *)

MaxBatch == 2

\* Metadata records the Actions collection may hold.
MetaUniverse ==
    { Dict(<<Pair("Name", Str("search")), Pair("Description", Str("web search")),
             Pair("timestamp", Str("t1"))>>),
      Dict(<<Pair("Name", Str("search")), Pair("Description", Str("site search"))>>),
      Dict(<<Pair("Name", Str("browse")), Pair("timestamp", Str("t2"))>>),
      Dict(<<Pair("Name", Str("browse")), Pair("Description", Str(""))>>),
      Dict(<<Pair("Name", Str("")), Pair("Description", Str("nameless"))>>),
      Dict(<<Pair("Description", Str("orphan")), Pair("timestamp", Str("t3"))>>) }

Batches == UNION { [1..n -> MetaUniverse] : n \in 0..MaxBatch }

\* storage.search_storage_by_threshold: a result set, the failure sentinel, or
\* a result without metadatas.
FailureSentinel == Dict(<<Pair("failed", Str("No action found"))>>)

SearchResults ==
    { Dict(<<Pair("metadatas", List(<<List(b)>>))>>) : b \in Batches }
        \cup { FailureSentinel, Dict(<<Pair("metadatas", List(<<>>))>>) }

\* What parse_yaml_string makes of the model's text: a mapping naming an action,
\* a mapping without 'action', or None.
ParsedResults ==
    { Dict(<<Pair("action", Str(n))>>) : n \in {"search", "browse", "failed", "fly"} }
        \cup { Dict(<<Pair("thoughts", Str("hm"))>>), None }

RawResult == Str("raw model text")

-----------------------------------------------------------------------------
(* ActionSelectionAgent: the run cycle *)

\* issubclass(e, Exception): StopExecution derives from Exception.
IsException(e) == e \in {"StopExecution", "Exception"}

AgentStart ==
    /\ apc = "idle"
    /\ actions = EmptyDict
    /\ action_list = "unset"
    /\ result = None
    /\ output = None
    /\ exc = "none"
    /\ ret = Str("unset")
    /\ log_results = 0
    /\ log_errors = 0
    /\ searched = None
    /\ steps = <<>>

\* run() enters the base run cycle.
RunStart ==
    /\ apc = "idle"
    /\ apc' = "load"
    /\ UNCHANGED <<actions, action_list, result, output, exc, ret,
                   log_results, log_errors, searched, steps>>
    /\ UNCHANGED <<configVars, overrideVars>>

\* A load_actions that lets the exception of the search go.
LoadActionsPropagates ==
    /\ apc = "load"
    /\ \/ \E r \in SearchResults :
            /\ actions' = r
            /\ searched' = r
            /\ apc' = "stop_check"
            /\ UNCHANGED exc
       \/ /\ searched' = Str("raised")
          /\ exc' = "Exception"
          /\ apc' = "return"
          /\ UNCHANGED actions
    /\ steps' = Append(steps, "load")
    /\ UNCHANGED <<action_list, result, output, ret, log_results, log_errors>>
    /\ UNCHANGED <<configVars, overrideVars>>

\* load_additional_data -> load_actions: the search answers or raises.
LoadActions ==
    /\ apc = "load"
    /\ \/ \E r \in SearchResults :
            /\ actions' = r
            /\ searched' = r
            /\ UNCHANGED log_errors
       \/ /\ actions' = EmptyDict
          /\ searched' = Str("raised")
          /\ log_errors' = log_errors + 1
    /\ apc' = "stop_check"
    /\ steps' = Append(steps, "load")
    /\ UNCHANGED <<action_list, result, output, exc, ret, log_results>>
    /\ UNCHANGED <<configVars, overrideVars>>

\* process_data: stop_execution_on_no_action inside the try block.
StopCheck ==
    /\ apc = "stop_check"
    /\ IF HasKey(actions, "failed")
       THEN /\ exc' = "StopExecution"
            /\ apc' = "process_except"
       ELSE /\ exc' = "none"
            /\ apc' = "parse"
    /\ steps' = Append(steps, "stop_check")
    /\ UNCHANGED <<actions, action_list, result, output, ret,
                   log_results, log_errors, searched>>
    /\ UNCHANGED <<configVars, overrideVars>>

\* process_data: 'except Exception as e' logs and returns normally; anything
\* that is no Exception leaves process_data and the base run cycle.
ProcessExcept ==
    /\ apc = "process_except"
    /\ IF IsException(exc)
       THEN /\ exc' = "none"
            /\ log_errors' = log_errors + 1
            /\ apc' = "generate"
       ELSE /\ apc' = "return"
            /\ UNCHANGED <<exc, log_errors>>
    /\ UNCHANGED <<actions, action_list, result, output, ret,
                   log_results, searched, steps>>
    /\ UNCHANGED <<configVars, overrideVars>>

\* A loop that keeps the first record of a name.
RECURSIVE ParseBatchFirst(_, _)
ParseBatchFirst(parsed, batch) ==
    IF batch = <<>> THEN parsed
    ELSE LET metadata == Head(batch).val
             action_name == GetOr(metadata, "Name", None)
         IN ParseBatchFirst(IF Truthy(action_name) /\ ~HasKey(parsed, action_name.s)
                            THEN Put(parsed, action_name.s, Pop(metadata, "timestamp"))
                            ELSE parsed,
                            Tail(batch))

\* The loop of parse_actions over the first metadata batch.
RECURSIVE ParseBatch(_, _)
ParseBatch(parsed, batch) ==
    IF batch = <<>> THEN parsed
    ELSE LET metadata == Head(batch).val
             action_name == GetOr(metadata, "Name", None)
         IN ParseBatch(IF Truthy(action_name)
                       THEN Put(parsed, action_name.s, Pop(metadata, "timestamp"))
                       ELSE parsed,
                       Tail(batch))

\* parse_actions
ParsedActions(acts) ==
    IF HasKey(acts, "failed") THEN acts
    ELSE LET metadatas == GetOr(acts, "metadatas", List(<<>>))
         IN IF Len(metadatas.m) = 0
            THEN EmptyDict           \* [][0] raises IndexError: actions = {}
            ELSE ParseBatch(EmptyDict, metadatas.m[1].val.m)

ParseRaises(acts) ==
    /\ ~HasKey(acts, "failed")
    /\ Len(GetOr(acts, "metadatas", List(<<>>)).m) = 0

ParseActions ==
    /\ apc = "parse"
    /\ actions' = ParsedActions(actions)
    /\ log_errors' = IF ParseRaises(actions) THEN log_errors + 1 ELSE log_errors
    /\ apc' = "format"
    /\ steps' = Append(steps, "parse")
    /\ UNCHANGED <<action_list, result, output, exc, ret, log_results, searched>>
    /\ UNCHANGED <<configVars, overrideVars>>

\* A loop that ends every segment, the last one too, with the separator.
RECURSIVE FormatPairsTrailing(_)
FormatPairsTrailing(pairs) ==
    IF pairs = <<>> THEN ""
    ELSE "Action: " \o Head(pairs).key \o "\nDescription: "
            \o GetOr(Head(pairs).val, "Description", Str("No Description")).s \o "\n"
            \o "\n" \o FormatPairsTrailing(Tail(pairs))

\* The loop of format_actions, joined with "\n".
RECURSIVE FormatPairs(_)
FormatPairs(pairs) ==
    IF pairs = <<>> THEN ""
    ELSE LET action_desc == GetOr(Head(pairs).val, "Description", Str("No Description"))
             formatted_action == "Action: " \o Head(pairs).key \o "\nDescription: "
                                    \o action_desc.s \o "\n"
         IN IF Tail(pairs) = <<>> THEN formatted_action
            ELSE formatted_action \o "\n" \o FormatPairs(Tail(pairs))

\* format_actions
FormatActions ==
    /\ apc = "format"
    /\ action_list' = IF HasKey(actions, "failed") THEN action_list
                      ELSE FormatPairs(actions.m)
    /\ apc' = "generate"
    /\ steps' = Append(steps, "format")
    /\ UNCHANGED <<actions, result, output, exc, ret, log_results, log_errors, searched>>
    /\ UNCHANGED <<configVars, overrideVars>>

\* The base run cycle generates the model's text.
Generate ==
    /\ apc = "generate"
    /\ result' = RawResult
    /\ apc' = "parse_result"
    /\ UNCHANGED <<actions, action_list, output, exc, ret,
                   log_results, log_errors, searched, steps>>
    /\ UNCHANGED <<configVars, overrideVars>>

\* parse_result: parse_yaml_string answers or raises.
ParseResult ==
    /\ apc = "parse_result"
    /\ \/ \E p \in ParsedResults :
            /\ result' = p
            /\ UNCHANGED log_errors
       \/ /\ log_errors' = log_errors + 1
          /\ UNCHANGED result
    /\ apc' = "build_output"
    /\ UNCHANGED <<actions, action_list, output, exc, ret, log_results, searched, steps>>
    /\ UNCHANGED <<configVars, overrideVars>>

\* A message that leaves the name out.
DiagnosticNameless(selected_action) ==
    Str("The action does not exist. It is very likely the "
        \o "agent did not correctly choose an action from the given list.")

\* self.result['action'] raises on None, a string or a mapping without the key.
SelectRaises(res) == ~IsDict(res) \/ ~HasKey(res, "action")

Diagnostic(selected_action) ==
    Str("The '" \o selected_action \o "' action does not exist. It is very likely the "
        \o "agent did not correctly choose an action from the given list.")

\* build_output
BuildOutput ==
    /\ apc = "build_output"
    /\ IF SelectRaises(result)
       THEN /\ log_errors' = log_errors + 1
            /\ UNCHANGED output
       ELSE LET selected_action == Get(result, "action").s
            IN /\ output' = IF HasKey(actions, selected_action)
                            THEN Get(actions, selected_action)
                            ELSE Diagnostic(selected_action)
               /\ UNCHANGED log_errors
    /\ apc' = "return"
    /\ steps' = Append(steps, "select")
    /\ UNCHANGED <<actions, action_list, result, exc, ret, log_results, searched>>
    /\ UNCHANGED <<configVars, overrideVars>>

\* run(): 'return super().run(**kwargs)', or the StopExecution handler.
RunReturn ==
    /\ apc = "return"
    /\ IF exc = "StopExecution"
       THEN /\ log_results' = log_results + 1
            /\ ret' = None
            /\ exc' = "none"
       ELSE /\ ret' = output
            /\ UNCHANGED <<log_results, exc>>
    /\ apc' = "done"
    /\ UNCHANGED <<actions, action_list, result, output, log_errors, searched, steps>>
    /\ UNCHANGED <<configVars, overrideVars>>

AgentNext ==
    \/ RunStart
    \/ LoadActions
    \/ StopCheck
    \/ ProcessExcept
    \/ ParseActions
    \/ FormatActions
    \/ Generate
    \/ ParseResult
    \/ BuildOutput
    \/ RunReturn

\* The agent runs alone: the configuration store is not part of its cycle.
AgentInit ==
    /\ AgentStart
    /\ StoreAtRest
    /\ data = EmptyDict
    /\ disk = NoFiles
    /\ agent = None
    /\ resolved = None
    /\ rpc = "off"

SpecAgent == AgentInit /\ [][AgentNext]_vars

-----------------------------------------------------------------------------
(* Config.resolve_model_overrides *)

NumParamKeys == 2

ParamKey(i) == "p" \o ToString(i)

ParamKeys == { ParamKey(i) : i \in 1..NumParamKeys }

\* A params mapping that gives the keys numbered in S the value val.
RECURSIVE ParamsFrom(_, _, _)
ParamsFrom(i, S, val) ==
    IF i > NumParamKeys THEN <<>>
    ELSE (IF i \in S THEN <<Pair(ParamKey(i), Str(val))>> ELSE <<>>)
            \o ParamsFrom(i + 1, S, val)

ParamsOf(S, val) == Dict(ParamsFrom(1, S, val))

ParamSets(val) == { ParamsOf(S, val) : S \in SUBSET (1..NumParamKeys) }

Opt(key, v) == IF v = Absent THEN <<>> ELSE <<Pair(key, v)>>

\* settings.models.ModelSettings: the default API, model and params.
ModelSettingsChoices ==
    { Dict(<<Pair("API", Str("openai")), Pair("Model", Str("gpt")), Pair("Params", dp)>>) :
        dp \in ParamSets("default") }

\* settings.models.ModelLibrary: per API a module and its models.
OpenAIChoices ==
    { Absent,
      Dict(<<Pair("module", Str("openai"))>>),
      Dict(<<Pair("module", Str("openai")), Pair("models", EmptyDict)>>),
      Dict(<<Pair("module", Str("openai")),
             Pair("models", Dict(<<Pair("gpt", Dict(<<Pair("name", Str("gpt-4"))>>))>>))>>) }
        \cup { Dict(<<Pair("module", Str("openai")),
                      Pair("models", Dict(<<Pair("gpt", Dict(<<Pair("name", Str("gpt-4")),
                                                               Pair("params", mp)>>))>>))>>) :
                 mp \in ParamSets("model") }

GeminiChoices ==
    { Absent,
      Dict(<<Pair("module", Str("gemini")),
             Pair("models", Dict(<<Pair("flash",
                    Dict(<<Pair("name", Str("gemini-flash")),
                           Pair("params", ParamsOf(1..NumParamKeys, "flash"))>>))>>))>>) }

ModelLibraryChoices ==
    { Dict(Opt("openai", o) \o Opt("gemini", g)) : o \in OpenAIChoices, g \in GeminiChoices }

SettingsTree(model_settings, library) ==
    Dict(<<Pair("settings",
                Dict(<<Pair("models", Dict(<<Pair("ModelSettings", model_settings),
                                             Pair("ModelLibrary", library)>>))>>))>>)

\* prompts.<agent>: ModelOverrides left out, left empty (None), or a mapping
\* with any of API, Model and Params, the API and Model possibly empty (None).
ModelOverridesChoices ==
    { Absent, None }
        \cup { Dict(Opt("API", a) \o Opt("Model", mo) \o Opt("Params", ps)) :
                 a \in {Absent, None, Str("openai"), Str("gemini")},
                 mo \in {Absent, None, Str("gpt"), Str("flash")},
                 ps \in {Absent} \cup ParamSets("agent") }

AgentChoices ==
    { Dict(<<Pair("Prompts", Str("hello"))>> \o Opt("ModelOverrides", ov)) :
        ov \in ModelOverridesChoices }

\* The key a value selects in a mapping: None and the other non-strings are
\* keys no string equals.
LookupKey(v) == IF v.k = "str" THEN v.s ELSE "<" \o v.k \o ">"

\* AttributeError / TypeError out of the call.
Raised(what) == [raised |-> TRUE, error |-> what, api |-> None, model |-> None,
                 params |-> EmptyDict]

Returned(api, model, final_model_params) ==
    [raised |-> FALSE, error |-> "", api |-> api, model |-> model,
     params |-> final_model_params]

\* model_overrides.get(key, default): the default only when the key is absent.
OverrideOrDefault(model_overrides, key, default) == GetOr(model_overrides, key, default)

\* settings['models']['ModelLibrary'].get(api, {}).get('models', {}).get(model, {}).get('params', {})
LibraryParams(library, api, model) ==
    GetOr(GetOr(GetOr(GetOr(library, LookupKey(api), EmptyDict), "models", EmptyDict),
                LookupKey(model), EmptyDict),
          "params", EmptyDict)

\* The merge with its order reversed: earlier sources overwrite later ones.
CombineParamsReversed(default_params, params, override_params) ==
    Merge(Merge(override_params, params), default_params)

\* {**default_params, **params}, then {**combined_params, **override params}
CombineParams(default_params, params, override_params) ==
    Merge(Merge(default_params, params), override_params)

resolve_model_overrides(tree, agt) ==
    LET settings == Get(tree, "settings")
        model_overrides == GetOr(agt, "ModelOverrides", EmptyDict)
        model_settings == Get(Get(settings, "models"), "ModelSettings")
    IN IF ~IsDict(model_overrides)
       THEN Raised("AttributeError")      \* None has no .get
       ELSE LET api == OverrideOrDefault(model_overrides, "API", Get(model_settings, "API"))
                model == OverrideOrDefault(model_overrides, "Model",
                                           Get(model_settings, "Model"))
                default_params == Get(model_settings, "Params")
                params == LibraryParams(Get(Get(settings, "models"), "ModelLibrary"),
                                        api, model)
            IN Returned(api, model,
                        CombineParams(default_params, params,
                                      GetOr(model_overrides, "Params", EmptyDict)))

-----------------------------------------------------------------------------
(* C1, C2: the stop signal *)

SearchFailed == IsDict(searched) /\ HasKey(searched, "failed")

\* C1: in a run cycle whose search returned the failure sentinel, the stop
\* signal reaches run(): run() returns None and logs exactly one
\* 'No Relevant Action Found' result entry.
C1_StopReachesRun ==
    (apc = "done" /\ SearchFailed) => (ret = None /\ log_results = 1)

\* C2: the protocol ends in Stopped on the failure sentinel (after the stop
\* check none of parse, format, select runs in that cycle); otherwise the
\* steps run in the order parse, format, select.
C2_StoppedOrOrdered ==
    apc = "done" =>
        IF SearchFailed
        THEN steps = <<"load", "stop_check">>
        ELSE steps = <<"load", "stop_check", "parse", "format", "select">>

OverridesInit ==
    /\ AgentStart
    /\ StoreAtRest
    /\ disk = NoFiles
    /\ \E ms \in ModelSettingsChoices, lib \in ModelLibraryChoices :
            data = SettingsTree(ms, lib)
    /\ agent \in AgentChoices
    /\ resolved = None
    /\ rpc = "input"

\* One call of resolve_model_overrides on the drawn tree and agent.
Resolve ==
    /\ rpc = "input"
    /\ resolved' = resolve_model_overrides(data, agent)
    /\ rpc' = "done"
    /\ UNCHANGED <<agentVars, configVars, agent>>

OverridesNext == Resolve

SpecOverrides == OverridesInit /\ [][OverridesNext]_vars

-----------------------------------------------------------------------------
(* C9, C10: what resolve_model_overrides returns *)

GlobalSettings == Get(Get(Get(data, "settings"), "models"), "ModelSettings")

GlobalLibrary == Get(Get(Get(data, "settings"), "models"), "ModelLibrary")

DeclaredOverrides == GetOr(agent, "ModelOverrides", EmptyDict)

\* The params the agent declares, the params the library declares for the
\* effective API and model, and the global default params.
AgentParams == GetOr(DeclaredOverrides, "Params", EmptyDict)

ModelParams ==
    LET api == LookupKey(resolved.api)
        model == LookupKey(resolved.model)
    IN IF /\ HasKey(GlobalLibrary, api)
          /\ HasKey(Get(GlobalLibrary, api), "models")
          /\ HasKey(Get(Get(GlobalLibrary, api), "models"), model)
          /\ HasKey(Get(Get(Get(GlobalLibrary, api), "models"), model), "params")
       THEN Get(Get(Get(Get(GlobalLibrary, api), "models"), model), "params")
       ELSE EmptyDict

DefaultParams == Get(GlobalSettings, "Params")

\* C9: for every parameter key the call returns the agent-declared value if the
\* agent declares the key, else the model-specific value if the library declares
\* it for the effective API and model (a missing API or model entry counts as
\* declaring nothing), else the global default; and it returns no other key.
\* Stated for calls that return, over params that are mappings.
C9_ParamPrecedence ==
    (rpc = "done" /\ ~resolved.raised) =>
        \A key \in ParamKeys :
            IF HasKey(AgentParams, key)
            THEN /\ HasKey(resolved.params, key)
                 /\ Get(resolved.params, key) = Get(AgentParams, key)
            ELSE IF HasKey(ModelParams, key)
            THEN /\ HasKey(resolved.params, key)
                 /\ Get(resolved.params, key) = Get(ModelParams, key)
            ELSE IF HasKey(DefaultParams, key)
            THEN /\ HasKey(resolved.params, key)
                 /\ Get(resolved.params, key) = Get(DefaultParams, key)
            ELSE ~HasKey(resolved.params, key)

\* A call where all three sources declare p1 with distinct values, and one
\* where the library holds no entry for the effective API.
C9_Witness ==
    /\ rpc = "done"
    /\ ~resolved.raised
    /\ HasKey(AgentParams, "p1") /\ HasKey(ModelParams, "p1") /\ HasKey(DefaultParams, "p1")
    /\ Get(AgentParams, "p1") # Get(ModelParams, "p1")
    /\ Get(ModelParams, "p1") # Get(DefaultParams, "p1")
    /\ Get(resolved.params, "p1") = Str("agent")

\* The override the agent provides for key, else the default.
ProvidedOr(key, default) ==
    IF /\ IsDict(DeclaredOverrides)
       /\ HasKey(DeclaredOverrides, key)
       /\ Truthy(Get(DeclaredOverrides, key))
    THEN Get(DeclaredOverrides, key)
    ELSE default

\* C10: the effective API is the agent's override API when the agent provides
\* one and the global default otherwise, likewise the model; an agent whose
\* ModelOverrides is absent, empty, or carries an empty API or Model resolves
\* to the global defaults, and the call does not raise.
C10_EffectiveApiModel ==
    rpc = "done" =>
        /\ ~resolved.raised
        /\ resolved.api = ProvidedOr("API", Get(GlobalSettings, "API"))
        /\ resolved.model = ProvidedOr("Model", Get(GlobalSettings, "Model"))

-----------------------------------------------------------------------------
(* The project directories and the files under .agentforge *)

\* find_project_root raises FileNotFoundError.
NotFound == "FileNotFoundError"

\* sys.argv[0]'s directory, and pathlib's parent (the filesystem root is its own).
ScriptDir == "/proj/app"

Parent(d) ==
    CASE d = "/proj/app" -> "/proj"
      [] d = "/proj" -> "/"
      [] d = "/other" -> "/"
      [] d = "/tmp" -> "/"
      [] OTHER -> d

\* The while loop of find_project_root.
RECURSIVE WalkUp(_, _)
WalkUp(current_dir, sents) ==
    IF current_dir = Parent(current_dir) THEN NotFound
    ELSE IF current_dir \in sents THEN current_dir
    ELSE WalkUp(Parent(current_dir), sents)

\* root_path "" stands for None.
find_project_root(root, sents) ==
    IF root # ""
    THEN (IF root \in sents THEN root ELSE NotFound)
    ELSE WalkUp(ScriptDir, sents)

ConfigPath(root) == root \o "/.agentforge"

\* The root_path arguments construction calls pass.
RootArgs == {"", "/other", "/tmp"}

\* config_path / 'settings' / 'system.yaml', settings/models.yaml and
\* prompts/agent.yaml
SystemSlot == 2

ModelsSlot == 4

AgentSlot == 5

\* A file whose text YAML cannot parse.
Invalid == [k |-> "invalid", m |-> <<>>, s |-> ""]

SysOn == Dict(<<Pair("OnTheFly", Bool(TRUE))>>)

SysOff == Dict(<<Pair("OnTheFly", Bool(FALSE))>>)

SysPlain == Dict(<<Pair("Persona", Str("default"))>>)

AgentV1 == Dict(<<Pair("Prompts", Str("v1"))>>)

AgentV2 == Dict(<<Pair("Prompts", Str("v2")), Pair("Persona", Str("bot"))>>)

\* load_yaml_file: the parsed content, {} for a missing or unparsable file.
load_yaml_file(content) ==
    IF content = Absent \/ content = Invalid THEN EmptyDict ELSE content

\* get_nested_dict followed by nested_dict[key] = val (when store): the parts
\* missing on the way are created as empty dicts.
RECURSIVE NestedPut(_, _, _, _, _)
NestedPut(d, parts, key, val, store) ==
    IF parts = <<>>
    THEN (IF store THEN Put(d, key, val) ELSE d)
    ELSE Put(d, Head(parts),
             NestedPut(GetOr(d, Head(parts), EmptyDict), Tail(parts), key, val, store))

\* get_nested_dict or the assignment raises TypeError: a part of the path, or
\* the place the key is stored in, is no dict.
RECURSIVE NestedRaises(_, _, _)
NestedRaises(d, parts, store) ==
    IF ~IsDict(d) THEN (parts # <<>> \/ store)
    ELSE IF parts = <<>> THEN FALSE
    ELSE IF ~HasKey(d, Head(parts)) THEN FALSE
    ELSE NestedRaises(Get(d, Head(parts)), Tail(parts), store)

IsYaml(slot) == slot.ext \in {"yaml", "yml"}

\* The body of the loop of load_all_configurations for one file.
LoadFileRaises(tree, slot, content) ==
    IsYaml(slot) /\ NestedRaises(tree, slot.dir, Truthy(load_yaml_file(content)))

\* A loop body that starts from an empty tree for each file.
LoadFileFresh(tree, slot, content) ==
    IF ~IsYaml(slot) THEN tree
    ELSE NestedPut(EmptyDict, slot.dir, slot.name, load_yaml_file(content),
                   Truthy(load_yaml_file(content)))

LoadFile(tree, slot, content) ==
    IF ~IsYaml(slot) THEN tree
    ELSE NestedPut(tree, slot.dir, slot.name, load_yaml_file(content),
                   Truthy(load_yaml_file(content)))

\* The next file os.walk lists after slot i, 0 when there is none.
NextSlot(files, i) ==
    IF \E j \in Slots : j > i /\ files[j] # Absent
    THEN CHOOSE j \in Slots : /\ j > i /\ files[j] # Absent
                              /\ \A h \in Slots : (h > i /\ files[h] # Absent) => j <= h
    ELSE 0

\* A reload() whose flag defaults to True when the key is left out.
ReloadOutcomeDefaultTrue(tree) ==
    IF tree = Absent THEN "AttributeError"
    ELSE IF ~HasKey(tree, "settings") THEN "KeyError"
    ELSE IF ~HasKey(Get(tree, "settings"), "system") THEN "KeyError"
    ELSE IF ~IsDict(Get(Get(tree, "settings"), "system")) THEN "AttributeError"
    ELSE IF Truthy(GetOr(Get(Get(tree, "settings"), "system"), "OnTheFly", Bool(TRUE)))
    THEN "walk"
    ELSE "skip"

\* reload(): self.data['settings']['system'].get('OnTheFly', False)
ReloadOutcome(tree) ==
    IF tree = Absent THEN "AttributeError"
    ELSE IF ~HasKey(tree, "settings") THEN "KeyError"
    ELSE IF ~HasKey(Get(tree, "settings"), "system") THEN "KeyError"
    ELSE IF ~IsDict(Get(Get(tree, "settings"), "system")) THEN "AttributeError"
    ELSE IF Truthy(GetOr(Get(Get(tree, "settings"), "system"), "OnTheFly", Bool(FALSE)))
    THEN "walk"
    ELSE "skip"

\* save(): the loop that merges settings.system into the parsed file.
SaveFailed == [ok |-> FALSE, data |-> None]

RECURSIVE SaveMerge(_, _)
SaveMerge(existing, items) ==
    IF items = <<>> THEN [ok |-> TRUE, data |-> existing]
    ELSE LET key == Head(items).key
             value == Head(items).val
         IN IF ~IsDict(existing) THEN SaveFailed
            ELSE IF IsDict(value) /\ HasKey(existing, key)
            THEN (IF IsDict(Get(existing, key))
                  THEN SaveMerge(Put(existing, key, Merge(Get(existing, key), value)),
                                 Tail(items))
                  ELSE SaveFailed)
            ELSE SaveMerge(Put(existing, key, value), Tail(items))

HasSystemSettings(tree) ==
    /\ tree # Absent
    /\ HasKey(tree, "settings")
    /\ IsDict(Get(tree, "settings"))
    /\ HasKey(Get(tree, "settings"), "system")

-----------------------------------------------------------------------------
(* Config: construction *)

Outside == UNCHANGED <<agentVars, overrideVars>>

\* 'with cls._lock' (__new__) and 'with Config._lock' (save) name the class
\* attribute; 'with self._lock' (load_all_configurations) finds the same lock
\* through the instance.
\* A __new__ and a save that do not wait for the lock.
NoClassLock == TRUE

\* A load_all_configurations that does not wait for the lock.
NoSelfLock == TRUE

\* An __init__ that runs its body on every call.
NeverInitialized == FALSE

ClassLockFree == lock = 0

SelfLockFree == lock = 0

\* hasattr(self, 'is_initialized')
AlreadyInitialized == is_initialized

Goto(t, to) == pc' = [pc EXCEPT ![t] = to]

\* The operation is over: it returns, or raises error.
Finish(t, error) ==
    /\ pc' = [pc EXCEPT ![t] = "done"]
    /\ raised' = [raised EXCEPT ![t] = error]

\* The caller has its answer; the locals of the call are gone.
Return(t) ==
    /\ pc[t] = "done"
    /\ pc' = [pc EXCEPT ![t] = "idle"]
    /\ op' = [op EXCEPT ![t] = "none"]
    /\ root_path' = [root_path EXCEPT ![t] = ""]
    /\ self' = [self EXCEPT ![t] = 0]
    /\ idx' = [idx EXCEPT ![t] = 0]
    /\ existing_data' = [existing_data EXCEPT ![t] = None]
    /\ raised' = [raised EXCEPT ![t] = "none"]
    /\ UNCHANGED <<storeVars, disk, sentinels, ref>>
    /\ Outside

\* Config(root_path): __new__ first. A call made after a completed
\* construction is told apart as "reconstruct".
CallConfig(t, root) ==
    /\ pc[t] = "idle"
    /\ op' = [op EXCEPT ![t] = IF built THEN "reconstruct" ELSE "construct"]
    /\ root_path' = [root_path EXCEPT ![t] = root]
    /\ Goto(t, "new_lock")
    /\ UNCHANGED <<storeVars, disk, sentinels, self, ref, idx, existing_data, raised>>
    /\ Outside

\* __new__: with cls._lock
NewEnter(t) ==
    /\ pc[t] = "new_lock"
    /\ ClassLockFree
    /\ lock' = t
    /\ Goto(t, "new_check")
    /\ UNCHANGED <<instance, objects, is_initialized, project_root, config_path, data,
                   built, disk, sentinels, op, root_path, self, ref, idx,
                   existing_data, raised>>
    /\ Outside

\* __new__: if not cls._instance
NewCheck(t) ==
    /\ pc[t] = "new_check"
    /\ Goto(t, IF instance = 0 THEN "new_create" ELSE "new_exit")
    /\ UNCHANGED <<storeVars, disk, sentinels, op, root_path, self, ref, idx,
                   existing_data, raised>>
    /\ Outside

\* __new__: cls._instance = super().__new__(cls)
NewCreate(t) ==
    /\ pc[t] = "new_create"
    /\ objects' = objects + 1
    /\ instance' = objects + 1
    /\ Goto(t, "new_exit")
    /\ UNCHANGED <<lock, is_initialized, project_root, config_path, data, built,
                   disk, sentinels, op, root_path, self, ref, idx, existing_data, raised>>
    /\ Outside

\* __new__: the with block is left
NewExit(t) ==
    /\ pc[t] = "new_exit"
    /\ lock' = 0
    /\ Goto(t, "new_return")
    /\ UNCHANGED <<instance, objects, is_initialized, project_root, config_path, data,
                   built, disk, sentinels, op, root_path, self, ref, idx,
                   existing_data, raised>>
    /\ Outside

\* __new__: return cls._instance
NewReturn(t) ==
    /\ pc[t] = "new_return"
    /\ self' = [self EXCEPT ![t] = instance]
    /\ Goto(t, "init_check")
    /\ UNCHANGED <<storeVars, disk, sentinels, op, root_path, ref, idx,
                   existing_data, raised>>
    /\ Outside

\* __init__: if not hasattr(self, 'is_initialized'); otherwise the call is over.
InitCheck(t) ==
    /\ pc[t] = "init_check"
    /\ IF AlreadyInitialized
       THEN /\ Finish(t, "none")
            /\ ref' = [ref EXCEPT ![t] = self[t]]
       ELSE /\ Goto(t, "init_set")
            /\ UNCHANGED <<ref, raised>>
    /\ UNCHANGED <<storeVars, disk, sentinels, op, root_path, self, idx, existing_data>>
    /\ Outside

\* An __init__ that does not set the guard before it resolves the root.
InitSetLate(t) ==
    /\ pc[t] = "init_set"
    /\ Goto(t, "init_root")
    /\ UNCHANGED <<lock, instance, objects, is_initialized, project_root, config_path,
                   data, built, disk, sentinels, op, root_path, self, ref, idx,
                   existing_data, raised>>
    /\ Outside

\* __init__: self.is_initialized = True
InitSet(t) ==
    /\ pc[t] = "init_set"
    /\ is_initialized' = TRUE
    /\ Goto(t, "init_root")
    /\ UNCHANGED <<lock, instance, objects, project_root, config_path, data, built,
                   disk, sentinels, op, root_path, self, ref, idx, existing_data, raised>>
    /\ Outside

\* __init__: project_root, config_path and data = {}; find_project_root may raise.
InitRoot(t) ==
    /\ pc[t] = "init_root"
    /\ LET found == find_project_root(root_path[t], sentinels)
       IN IF found = NotFound
          THEN /\ Finish(t, NotFound)
               /\ UNCHANGED <<project_root, config_path, data>>
          ELSE /\ project_root' = found
               /\ config_path' = ConfigPath(found)
               /\ data' = EmptyDict
               /\ Goto(t, "load_lock")
               /\ UNCHANGED raised
    /\ UNCHANGED <<lock, instance, objects, is_initialized, built, disk, sentinels,
                   op, root_path, self, ref, idx, existing_data>>
    /\ Outside

-----------------------------------------------------------------------------
(* Config: load_all_configurations, reload, the lookups *)

\* What follows a walk, or a reload that does not walk, in each operation.
AfterLoad(t) ==
    IF op[t] \in {"load_agent_data", "load_flow_data"} THEN "lookup" ELSE "done"

\* instance.load_all_configurations()
CallLoadAll(t) ==
    /\ pc[t] = "idle"
    /\ ref[t] # 0
    /\ op' = [op EXCEPT ![t] = "load_all_configurations"]
    /\ Goto(t, "load_lock")
    /\ UNCHANGED <<storeVars, disk, sentinels, root_path, self, ref, idx, existing_data, raised>>
    /\ Outside

\* load_all_configurations: with self._lock; os.walk starts.
LoadEnter(t) ==
    /\ pc[t] = "load_lock"
    /\ SelfLockFree
    /\ lock' = t
    /\ idx' = [idx EXCEPT ![t] = 0]
    /\ Goto(t, "walk")
    /\ UNCHANGED <<instance, objects, is_initialized, project_root, config_path, data,
                   built, disk, sentinels, op, root_path, self, ref, existing_data, raised>>
    /\ Outside

\* load_all_configurations: one file of the walk. A TypeError of
\* get_nested_dict leaves the with block and the operation.
WalkFile(t) ==
    /\ pc[t] = "walk"
    /\ NextSlot(disk, idx[t]) # 0
    /\ LET j == NextSlot(disk, idx[t])
       IN IF LoadFileRaises(data, FileSlots[j], disk[j])
          THEN /\ lock' = 0
               /\ Finish(t, "TypeError")
               /\ UNCHANGED <<data, idx>>
          ELSE /\ data' = LoadFile(data, FileSlots[j], disk[j])
               /\ idx' = [idx EXCEPT ![t] = j]
               /\ UNCHANGED <<lock, pc, raised>>
    /\ UNCHANGED <<instance, objects, is_initialized, project_root, config_path, built,
                   disk, sentinels, op, root_path, self, ref, existing_data>>
    /\ Outside

\* load_all_configurations: the walk is over, the with block is left. In
\* __init__ this ends the construction call.
WalkEnd(t) ==
    /\ pc[t] = "walk"
    /\ NextSlot(disk, idx[t]) = 0
    /\ lock' = 0
    /\ Goto(t, AfterLoad(t))
    /\ ref' = [ref EXCEPT ![t] = IF op[t] \in {"construct", "reconstruct"}
                                 THEN self[t] ELSE @]
    /\ built' = (built \/ op[t] \in {"construct", "reconstruct"})
    /\ UNCHANGED <<instance, objects, is_initialized, project_root, config_path, data,
                   disk, sentinels, op, root_path, self, idx, existing_data, raised>>
    /\ Outside

\* instance.reload(), instance.load_agent_data(name), instance.load_flow_data(name):
\* the last two call reload() first.
CallReload(t, what) ==
    /\ pc[t] = "idle"
    /\ ref[t] # 0
    /\ op' = [op EXCEPT ![t] = what]
    /\ Goto(t, "reload")
    /\ UNCHANGED <<storeVars, disk, sentinels, root_path, self, ref, idx, existing_data, raised>>
    /\ Outside

\* reload(): the test of OnTheFly.
ReloadCheck(t) ==
    /\ pc[t] = "reload"
    /\ LET outcome == ReloadOutcome(data)
       IN CASE outcome = "walk" -> Goto(t, "load_lock") /\ UNCHANGED raised
            [] outcome = "skip" -> Goto(t, AfterLoad(t)) /\ UNCHANGED raised
            [] OTHER -> Finish(t, outcome)
    /\ UNCHANGED <<storeVars, disk, sentinels, op, root_path, self, ref, idx, existing_data>>
    /\ Outside

\* instance.find_config(category, name)
CallFindConfig(t) ==
    /\ pc[t] = "idle"
    /\ ref[t] # 0
    /\ op' = [op EXCEPT ![t] = "find_config"]
    /\ Goto(t, "lookup")
    /\ UNCHANGED <<storeVars, disk, sentinels, root_path, self, ref, idx, existing_data, raised>>
    /\ Outside

\* find_config, and the reads of load_agent_data and load_flow_data after
\* reload(): the tree is read as it is, no lock is taken.
Lookup(t) ==
    /\ pc[t] = "lookup"
    /\ Finish(t, IF data = Absent THEN "AttributeError" ELSE "none")
    /\ UNCHANGED <<storeVars, disk, sentinels, op, root_path, self, ref, idx, existing_data>>
    /\ Outside

-----------------------------------------------------------------------------
(* Config: save *)

\* instance.save()
CallSave(t) ==
    /\ pc[t] = "idle"
    /\ ref[t] # 0
    /\ op' = [op EXCEPT ![t] = "save"]
    /\ Goto(t, "save_lock")
    /\ UNCHANGED <<storeVars, disk, sentinels, root_path, self, ref, idx, existing_data, raised>>
    /\ Outside

\* save: with Config._lock
SaveEnter(t) ==
    /\ pc[t] = "save_lock"
    /\ ClassLockFree
    /\ lock' = t
    /\ Goto(t, "save_read")
    /\ UNCHANGED <<instance, objects, is_initialized, project_root, config_path, data,
                   built, disk, sentinels, op, root_path, self, ref, idx,
                   existing_data, raised>>
    /\ Outside

\* A save whose with block is not left when the file cannot be read.
SaveReadKeepsLock(t) ==
    /\ pc[t] = "save_read"
    /\ IF config_path = "unset"
       THEN /\ lock' = 0
            /\ Finish(t, "AttributeError")
            /\ UNCHANGED existing_data
       ELSE IF disk[SystemSlot] = Absent \/ disk[SystemSlot] = Invalid
       THEN /\ Finish(t, "none")
            /\ UNCHANGED <<lock, existing_data>>
       ELSE /\ existing_data' = [existing_data EXCEPT ![t] = disk[SystemSlot]]
            /\ Goto(t, "save_write")
            /\ UNCHANGED <<lock, raised>>
    /\ UNCHANGED <<instance, objects, is_initialized, project_root, config_path, data,
                   built, disk, sentinels, op, root_path, self, ref, idx>>
    /\ Outside

\* save: system_yaml_path (outside the try: an unset config_path raises), then
\* the file is opened and parsed; a missing or unparsable file is caught and
\* reported, and the with block is left.
SaveRead(t) ==
    /\ pc[t] = "save_read"
    /\ IF config_path = "unset"
       THEN /\ lock' = 0
            /\ Finish(t, "AttributeError")
            /\ UNCHANGED existing_data
       ELSE IF disk[SystemSlot] = Absent \/ disk[SystemSlot] = Invalid
       THEN /\ lock' = 0
            /\ Finish(t, "none")
            /\ UNCHANGED existing_data
       ELSE /\ existing_data' = [existing_data EXCEPT ![t] = disk[SystemSlot]]
            /\ Goto(t, "save_write")
            /\ UNCHANGED <<lock, raised>>
    /\ UNCHANGED <<instance, objects, is_initialized, project_root, config_path, data,
                   built, disk, sentinels, op, root_path, self, ref, idx>>
    /\ Outside

\* save: the test for settings.system and the merge loop; then
\* open(system_yaml_path, 'w') leaves the file empty before anything is
\* dumped. Any exception is caught and reported, and the with block is left.
SaveWrite(t) ==
    /\ pc[t] = "save_write"
    /\ LET merged == IF HasSystemSettings(data) /\ IsDict(Get(Get(data, "settings"), "system"))
                     THEN SaveMerge(existing_data[t],
                                    Get(Get(data, "settings"), "system").m)
                     ELSE SaveFailed
       IN IF merged.ok
          THEN /\ existing_data' = [existing_data EXCEPT ![t] = merged.data]
               /\ disk' = [disk EXCEPT ![SystemSlot] = None]
               /\ Goto(t, "save_dump")
               /\ UNCHANGED <<lock, raised>>
          ELSE /\ existing_data' = [existing_data EXCEPT ![t] = None]
               /\ lock' = 0
               /\ Finish(t, "none")
               /\ UNCHANGED disk
    /\ UNCHANGED <<instance, objects, is_initialized, project_root, config_path, data,
                   built, sentinels, op, root_path, self, ref, idx>>
    /\ Outside

\* What _yaml.dump leaves in the file: all of the new content, nothing (the
\* dump raised before it wrote), or the start of it (the write broke off).
DumpOutcomes == {"written", "empty", "cut"}

\* save: _yaml.dump(existing_data, yaml_file); an exception is caught and
\* reported. The with block is left.
SaveDump(t, outcome) ==
    /\ pc[t] = "save_dump"
    /\ disk' = [disk EXCEPT ![SystemSlot] =
                   CASE outcome = "written" -> existing_data[t]
                     [] outcome = "empty" -> None
                     [] OTHER -> Invalid]
    /\ lock' = 0
    /\ existing_data' = [existing_data EXCEPT ![t] = None]
    /\ Finish(t, "none")
    /\ UNCHANGED <<instance, objects, is_initialized, project_root, config_path, data,
                   built, sentinels, op, root_path, self, ref, idx>>
    /\ Outside

-----------------------------------------------------------------------------
(* The files change under the running process *)

\* What an editor may leave in a file while threads race.
Editions(j) ==
    CASE j = SystemSlot -> {SysOn, SysOff}
      [] j = AgentSlot -> {AgentV1, AgentV2}
      [] OTHER -> {}

\* An editor, or another process, rewrites, creates or deletes a file.
EditFile(j, content) ==
    /\ content # disk[j]
    /\ disk' = [disk EXCEPT ![j] = content]
    /\ UNCHANGED <<storeVars, sentinels, threadVars>>
    /\ Outside

-----------------------------------------------------------------------------
(* The process: threads construct and use the configuration store *)

StartDisks ==
    { [NoFiles EXCEPT ![SystemSlot] = sys, ![AgentSlot] = AgentV1] : sys \in {SysOn, SysOff} }

\* The same with a system.yaml that leaves OnTheFly out.
StoreDisks ==
    { [NoFiles EXCEPT ![SystemSlot] = sys, ![AgentSlot] = AgentV1] :
        sys \in {SysOn, SysOff, SysPlain} }

Rest == AgentStart /\ agent = None /\ resolved = None /\ rpc = "off"

Init ==
    /\ StoreAtRest
    /\ data = Absent
    /\ disk \in StartDisks
    /\ Rest

Quiet == UNCHANGED historyVars

Next ==
    \/ \E t \in Threads, r \in RootArgs : CallConfig(t, r) /\ Quiet
    \/ \E t \in Threads : NewEnter(t) /\ Quiet
    \/ \E t \in Threads : NewCheck(t) /\ Quiet
    \/ \E t \in Threads : NewCreate(t) /\ Quiet
    \/ \E t \in Threads : NewExit(t) /\ Quiet
    \/ \E t \in Threads : NewReturn(t) /\ Quiet
    \/ \E t \in Threads : InitCheck(t) /\ Quiet
    \/ \E t \in Threads : InitSet(t) /\ Quiet
    \/ \E t \in Threads : InitRoot(t) /\ Quiet
    \/ \E t \in Threads : CallLoadAll(t) /\ Quiet
    \/ \E t \in Threads : LoadEnter(t) /\ Quiet
    \/ \E t \in Threads : WalkFile(t) /\ Quiet
    \/ \E t \in Threads : WalkEnd(t) /\ Quiet
    \/ \E t \in Threads, what \in {"reload", "load_agent_data", "load_flow_data"} :
            CallReload(t, what) /\ Quiet
    \/ \E t \in Threads : ReloadCheck(t) /\ Quiet
    \/ \E t \in Threads : CallFindConfig(t) /\ Quiet
    \/ \E t \in Threads : Lookup(t) /\ Quiet
    \/ \E t \in Threads : CallSave(t) /\ Quiet
    \/ \E t \in Threads : SaveEnter(t) /\ Quiet
    \/ \E t \in Threads : SaveRead(t) /\ Quiet
    \/ \E t \in Threads : SaveWrite(t) /\ Quiet
    \/ \E t \in Threads, outcome \in DumpOutcomes : SaveDump(t, outcome) /\ Quiet
    \/ \E t \in Threads : Return(t) /\ Quiet
    \/ \E j \in Slots : \E content \in Editions(j) : EditFile(j, content) /\ Quiet

Spec == Init /\ [][Next]_vars

-----------------------------------------------------------------------------
(* Threads that construct the store concurrently *)

ConstructNext ==
    \/ \E t \in Threads, r \in RootArgs : CallConfig(t, r) /\ Quiet
    \/ \E t \in Threads : NewEnter(t) /\ Quiet
    \/ \E t \in Threads : NewCheck(t) /\ Quiet
    \/ \E t \in Threads : NewCreate(t) /\ Quiet
    \/ \E t \in Threads : NewExit(t) /\ Quiet
    \/ \E t \in Threads : NewReturn(t) /\ Quiet
    \/ \E t \in Threads : InitCheck(t) /\ Quiet
    \/ \E t \in Threads : InitSet(t) /\ Quiet
    \/ \E t \in Threads : InitRoot(t) /\ Quiet
    \/ \E t \in Threads : LoadEnter(t) /\ Quiet
    \/ \E t \in Threads : WalkFile(t) /\ Quiet
    \/ \E t \in Threads : WalkEnd(t) /\ Quiet
    \/ \E t \in Threads : Return(t) /\ Quiet

SpecConstruct == Init /\ [][ConstructNext]_vars

-----------------------------------------------------------------------------
(* Threads that use the constructed store while the files change *)

\* load_all_configurations from start to end on files that stay as they are.
RECURSIVE LoadAllFrom(_, _, _)
LoadAllFrom(tree, files, i) ==
    IF NextSlot(files, i) = 0 THEN tree
    ELSE LoadAllFrom(LoadFile(tree, FileSlots[NextSlot(files, i)], files[NextSlot(files, i)]),
                     files, NextSlot(files, i))

\* One thread has constructed the store from the files; every thread holds it.
StoreInit ==
    /\ lock = 0
    /\ instance = 1
    /\ objects = 1
    /\ is_initialized = TRUE
    /\ project_root = find_project_root("", {"/proj", "/other"})
    /\ config_path = ConfigPath(find_project_root("", {"/proj", "/other"}))
    /\ built = TRUE
    /\ sentinels = {"/proj", "/other"}
    /\ disk \in StoreDisks
    /\ data = LoadAllFrom(EmptyDict, disk, 0)
    /\ pc = [t \in Threads |-> "idle"]
    /\ op = [t \in Threads |-> "none"]
    /\ root_path = [t \in Threads |-> ""]
    /\ self = [t \in Threads |-> 0]
    /\ ref = [t \in Threads |-> 1]
    /\ idx = [t \in Threads |-> 0]
    /\ existing_data = [t \in Threads |-> None]
    /\ raised = [t \in Threads |-> "none"]
    /\ first_tree = None
    /\ loads = 0
    /\ file_read = [t \in Threads |-> None]
    /\ bundle = [t \in Threads |-> None]
    /\ Rest

StoreNext ==
    \/ \E t \in Threads : CallLoadAll(t) /\ Quiet
    \/ \E t \in Threads : LoadEnter(t) /\ Quiet
    \/ \E t \in Threads : WalkFile(t) /\ Quiet
    \/ \E t \in Threads : WalkEnd(t) /\ Quiet
    \/ \E t \in Threads, what \in {"reload", "load_agent_data", "load_flow_data"} :
            CallReload(t, what) /\ Quiet
    \/ \E t \in Threads : ReloadCheck(t) /\ Quiet
    \/ \E t \in Threads : CallFindConfig(t) /\ Quiet
    \/ \E t \in Threads : Lookup(t) /\ Quiet
    \/ \E t \in Threads : CallSave(t) /\ Quiet
    \/ \E t \in Threads : SaveEnter(t) /\ Quiet
    \/ \E t \in Threads : SaveRead(t) /\ Quiet
    \/ \E t \in Threads : SaveWrite(t) /\ Quiet
    \/ \E t \in Threads : SaveDump(t, "written") /\ Quiet  \* dumps that fail: SpecSave
    \/ \E t \in Threads : Return(t) /\ Quiet
    \/ \E j \in Slots : \E content \in Editions(j) : EditFile(j, content) /\ Quiet

SpecStore == StoreInit /\ [][StoreNext]_vars

-----------------------------------------------------------------------------
(* Concurrency of the store: C3, C4 *)

\* A walk of thread w has merged some of the files and not yet the others.
MidWalk(w) ==
    /\ pc[w] = "walk"
    /\ idx[w] > 0
    /\ NextSlot(disk, idx[w]) # 0

\* C3: readers never observe a partially-merged tree. Whenever a thread reads
\* the tree (the read of find_config, load_agent_data or load_flow_data), no
\* other thread is inside load_all_configurations with some files of its walk
\* merged and others not yet.
C3_NoPartialRead ==
    [][\A t \in Threads :
          (pc[t] = "lookup" /\ pc'[t] # "lookup") =>
              ~ \E w \in Threads \ {t} : MidWalk(w)]_vars

\* Inside a with-lock block of __new__, load_all_configurations or save.
InCritical(t) ==
    pc[t] \in {"new_check", "new_create", "new_exit", "walk", "save_read", "save_write", "save_dump"}

\* C4: writers are serialized. At most one thread is inside a directory walk
\* or a save critical section at any time, and that thread holds the lock, so
\* the steps of two walks, or of a walk and a save, never interleave.
C4_WritersSerialized ==
    \A t \in Threads :
        InCritical(t) =>
            /\ lock = t
            /\ \A u \in Threads : InCritical(u) => u = t

\* A walk is half way while another thread waits to save and, with a third
\* thread or not, the lock is what holds it back.
C4_Witness ==
    \E t \in Threads, u \in Threads :
        /\ MidWalk(t)
        /\ pc[u] = "save_lock"
        /\ lock = t

-----------------------------------------------------------------------------
(* Construction: C5, C6 *)

\* C5: exactly one Config instance exists per process. Under every
\* interleaving of constructing threads at most one object is ever created,
\* the instance slot holds it from then on (objects never decreases, so a slot
\* equal to it is never replaced), and every construction call that returns
\* has returned that object.
C5_SingleInstance ==
    /\ objects <= 1
    /\ instance = objects
    /\ \A t \in Threads : ref[t] \in {0, instance} /\ self[t] \in {0, instance}

\* Two threads that both called Config() before any construction was
\* complete have both returned, with the same object.
C5_Witness ==
    \E t \in Threads, u \in Threads :
        /\ t # u
        /\ op[t] = "construct" /\ pc[t] = "done" /\ raised[t] = "none"
        /\ op[u] = "construct" /\ pc[u] = "done" /\ raised[u] = "none"
        /\ instance # 0
        /\ ref[t] = instance
        /\ ref[u] = instance

\* C6: after a first successful construction every later construction call is
\* ignored, whatever root_path it passes. No step of such a call changes
\* project_root, config_path or the tree, none enters the body of __init__ or
\* a directory walk, none raises, and the call returns the instance.
C6_LaterConstructionIgnored ==
    [][\A t \in Threads :
          (op[t] = "reconstruct" /\ pc'[t] # pc[t]) =>
              /\ project_root' = project_root
              /\ config_path' = config_path
              /\ data' = data
              /\ pc'[t] \notin {"init_set", "init_root", "load_lock", "walk"}
              /\ raised'[t] = "none"
              /\ (pc'[t] = "done" => ref'[t] = instance /\ instance # 0)]_vars

\* A later call that passed a root without a .agentforge folder has returned
\* the instance, and the store still has the first call's root.
C6_Witness ==
    \E t \in Threads :
        /\ op[t] = "reconstruct"
        /\ root_path[t] = "/tmp"
        /\ pc[t] = "done"
        /\ raised[t] = "none"
        /\ ref[t] = instance
        /\ project_root \in {"/proj", "/other"}

-----------------------------------------------------------------------------
(* reload: C7 *)

\* settings.system of the tree holds OnTheFly: true.
OnTheFlyTrue ==
    /\ HasSystemSettings(data)
    /\ IsDict(Get(Get(data, "settings"), "system"))
    /\ HasKey(Get(Get(data, "settings"), "system"), "OnTheFly")
    /\ Get(Get(Get(data, "settings"), "system"), "OnTheFly") = Bool(TRUE)

\* C7: reload() leaves the tree unchanged and starts no walk when the
\* in-memory flag OnTheFly is false or absent, whatever is on disk; when the
\* flag is true it goes on to load_all_configurations, whose walk ends only
\* when no file is left; load_agent_data and load_flow_data begin with reload().
C7_ReloadFollowsFlag ==
    [][\A t \in Threads :
          /\ (pc[t] = "reload" /\ pc'[t] # "reload") =>
                IF OnTheFlyTrue
                THEN pc'[t] = "load_lock" /\ data' = data
                ELSE data' = data /\ pc'[t] \notin {"load_lock", "walk"}
          /\ (/\ op[t] \in {"reload", "load_agent_data", "load_flow_data"}
              /\ pc[t] = "walk"
              /\ pc'[t] # "walk") => NextSlot(disk, idx[t]) = 0
          /\ (/\ pc[t] = "idle"
              /\ op'[t] \in {"reload", "load_agent_data", "load_flow_data"}) =>
                pc'[t] = "reload"
          /\ (/\ op[t] \in {"load_agent_data", "load_flow_data"}
              /\ pc'[t] = "lookup"
              /\ pc[t] # "lookup") => pc[t] \in {"reload", "walk"}]_vars

\* The flag is absent from the tree, the agent file has changed on disk, and a
\* reload() has returned with the tree still holding the old agent.
C7_Witness ==
    \E t \in Threads :
        /\ op[t] = "reload"
        /\ pc[t] = "done"
        /\ raised[t] = "none"
        /\ HasSystemSettings(data)
        /\ ~HasKey(Get(Get(data, "settings"), "system"), "OnTheFly")
        /\ disk[AgentSlot] = AgentV2
        /\ Get(Get(data, "prompts"), "agent") = AgentV1

-----------------------------------------------------------------------------
(* Loading a directory more than once: C8 *)

MaxLoads == 2

\* A settings.yaml next to the settings folder, and a file of notes.
RootSettings == Dict(<<Pair("system", Dict(<<Pair("Persona", Str("root"))>>)),
                       Pair("models", Str("library"))>>)

Notes == Str("notes")

\* The directories loaded: files present or not, empty (None), holding {},
\* unparsable, a scalar where a mapping is expected, two files with one stem.
LoadDisks ==
    { <<root, sys, yml, Absent, ag, txt>> :
        root \in {Absent, RootSettings, Str("text")},
        sys \in {Absent, SysOn, Invalid},
        yml \in {Absent, SysPlain},
        ag \in {Absent, AgentV1, None, EmptyDict},
        txt \in {Absent, Notes} }

\* __init__ of thread 1 is about to call load_all_configurations (data = {});
\* the other threads' Config() calls have returned the instance already.
LoadInit ==
    /\ lock = 0
    /\ instance = 1
    /\ objects = 1
    /\ is_initialized = TRUE
    /\ project_root = find_project_root("", {"/proj", "/other"})
    /\ config_path = ConfigPath(find_project_root("", {"/proj", "/other"}))
    /\ built = FALSE
    /\ sentinels = {"/proj", "/other"}
    /\ disk \in LoadDisks
    /\ data = EmptyDict
    /\ pc = [t \in Threads |-> IF t = 1 THEN "load_lock" ELSE "idle"]
    /\ op = [t \in Threads |-> IF t = 1 THEN "construct" ELSE "none"]
    /\ root_path = [t \in Threads |-> ""]
    /\ self = [t \in Threads |-> IF t = 1 THEN 1 ELSE 0]
    /\ ref = [t \in Threads |-> IF t = 1 THEN 0 ELSE 1]
    /\ idx = [t \in Threads |-> 0]
    /\ existing_data = [t \in Threads |-> None]
    /\ raised = [t \in Threads |-> "none"]
    /\ first_tree = None
    /\ loads = 0
    /\ file_read = [t \in Threads |-> None]
    /\ bundle = [t \in Threads |-> None]
    /\ Rest

\* A load has ended, by the end of the walk or by an exception: it is counted,
\* and the tree the first one leaves is kept.
Counted ==
    /\ loads' = IF loads < MaxLoads THEN loads + 1 ELSE loads
    /\ first_tree' = IF loads = 0 THEN data' ELSE first_tree
    /\ UNCHANGED <<file_read, bundle>>

LoadNext ==
    \/ \E t \in Threads : loads < MaxLoads /\ CallLoadAll(t) /\ Quiet
    \/ \E t \in Threads : LoadEnter(t) /\ Quiet
    \/ \E t \in Threads : WalkFile(t) /\ pc'[t] = "walk" /\ Quiet
    \/ \E t \in Threads : WalkFile(t) /\ pc'[t] = "done" /\ Counted
    \/ \E t \in Threads : WalkEnd(t) /\ Counted
    \/ \E t \in Threads : Return(t) /\ Quiet

SpecLoad == LoadInit /\ [][LoadNext]_vars

\* C8: load_all_configurations is idempotent. For a directory that does not
\* change, whenever no load is in progress the tree is the tree the first load
\* left, however many loads have run since.
C8_LoadIdempotent ==
    (loads >= 1 /\ lock = 0) => data = first_tree

\* Two loads have run over a directory with a settings.yaml beside the
\* settings folder and two system files, and the tree holds what they merged.
C8_Witness ==
    /\ loads >= 2
    /\ lock = 0
    /\ disk = <<RootSettings, SysOn, SysPlain, Absent, AgentV1, Notes>>
    /\ HasSystemSettings(data)
    /\ Get(Get(data, "settings"), "system") = SysPlain
    /\ data = first_tree

-----------------------------------------------------------------------------
(* save: C11, C12, C13 *)

\* What system.yaml, and the settings.system loaded from it earlier, may hold.
FlatFile == Dict(<<Pair("foo", Str("1"))>>)

FlatSettings == Dict(<<Pair("foo", Str("2")), Pair("bar", Str("3"))>>)

DeepFile ==
    Dict(<<Pair("Logging",
                Dict(<<Pair("Folder", Str("./Logs")),
                       Pair("Files", Dict(<<Pair("Actions", Str("error")),
                                            Pair("Results", Str("info"))>>))>>))>>)

DeepSettings ==
    Dict(<<Pair("Logging",
                Dict(<<Pair("Files", Dict(<<Pair("Actions", Str("debug"))>>))>>))>>)

NestedSettings == Dict(<<Pair("Logging", Dict(<<Pair("Folder", Str("./L2"))>>))>>)

ScalarFile == Dict(<<Pair("Logging", Str("off"))>>)

SaveContents == {FlatFile, FlatSettings, DeepFile, DeepSettings, NestedSettings, ScalarFile}

DiskWith(sys) == [NoFiles EXCEPT ![SystemSlot] = sys, ![AgentSlot] = AgentV1]

\* All threads hold the instance. Either it was constructed from a directory
\* whose system.yaml has been rewritten since (or was missing), or its first
\* construction call raised in find_project_root, which leaves an instance
\* with is_initialized set and nothing else.
SaveInit ==
    /\ lock = 0
    /\ instance = 1
    /\ objects = 1
    /\ is_initialized = TRUE
    /\ sentinels = {"/proj", "/other"}
    /\ \/ /\ project_root = find_project_root("", sentinels)
          /\ config_path = ConfigPath(find_project_root("", sentinels))
          /\ built = TRUE
          /\ \E loaded \in SaveContents \cup {Absent} :
                data = LoadAllFrom(EmptyDict, DiskWith(loaded), 0)
       \/ /\ project_root = "unset"
          /\ config_path = "unset"
          /\ built = FALSE
          /\ data = Absent
    /\ \E sys \in SaveContents \cup {Absent, Invalid, None} : disk = DiskWith(sys)
    /\ pc = [t \in Threads |-> "idle"]
    /\ op = [t \in Threads |-> "none"]
    /\ root_path = [t \in Threads |-> ""]
    /\ self = [t \in Threads |-> 0]
    /\ ref = [t \in Threads |-> 1]
    /\ idx = [t \in Threads |-> 0]
    /\ existing_data = [t \in Threads |-> None]
    /\ raised = [t \in Threads |-> "none"]
    /\ first_tree = None
    /\ loads = 0
    /\ file_read = [t \in Threads |-> None]
    /\ bundle = [t \in Threads |-> None]
    /\ Rest

\* The file as save() of thread t finds it is kept for comparison.
Noted(t) ==
    /\ file_read' = [file_read EXCEPT ![t] = disk[SystemSlot]]
    /\ UNCHANGED <<first_tree, loads, bundle>>

SaveNext ==
    \/ \E t \in Threads : CallSave(t) /\ Quiet
    \/ \E t \in Threads : SaveEnter(t) /\ Quiet
    \/ \E t \in Threads : SaveRead(t) /\ Noted(t)
    \/ \E t \in Threads : SaveWrite(t) /\ Quiet
    \/ \E t \in Threads, outcome \in DumpOutcomes : SaveDump(t, outcome) /\ Quiet
    \/ \E t \in Threads : Return(t) /\ Quiet

SpecSave == SaveInit /\ [][SaveNext]_vars

InSave(t) == pc[t] \in {"save_read", "save_write", "save_dump"}

\* C11: save() never leaves a partial write. When a save ends, the file holds
\* either the complete content the save found (it failed, or had nothing to
\* save) or the complete new content it dumped.
C11_NoPartialWrite ==
    [][\A t \in Threads :
          (InSave(t) /\ pc'[t] = "done") =>
              \/ disk'[SystemSlot] = file_read'[t]
              \/ pc[t] = "save_dump" /\ disk'[SystemSlot] = existing_data[t]]_vars

\* The merge at every nesting level: keys of the file only are kept, mappings
\* on both sides are merged, anything else takes the in-memory value.
RECURSIVE DeepMergeItems(_, _)
DeepMergeItems(a, items) ==
    IF items = <<>> THEN a
    ELSE LET key == Head(items).key
             value == Head(items).val
         IN DeepMergeItems(
                IF IsDict(value) /\ HasKey(a, key) /\ IsDict(Get(a, key))
                THEN Put(a, key, DeepMergeItems(Get(a, key), value.m))
                ELSE Put(a, key, value),
                Tail(items))

DeepMerge(a, b) == DeepMergeItems(a, b.m)

\* C12: after a successful save() the file equals the structural merge, at
\* every nesting level, of the content save() found with settings.system of
\* the tree: this is what save() has ready when it opens the file for
\* writing, and what the file holds when the dump has gone through.
C12_StructuralMerge ==
    [][\A t \in Threads :
          /\ (pc[t] = "save_write" /\ pc'[t] = "save_dump") =>
                existing_data'[t] = DeepMerge(existing_data[t],
                                              Get(Get(data, "settings"), "system"))
          /\ (/\ pc[t] = "save_dump"
              /\ pc'[t] = "done"
              /\ disk'[SystemSlot] \notin {None, Invalid}) =>
                disk'[SystemSlot] = existing_data[t]]_vars

\* C13: save() never raises to its caller. Whenever a save ends, no exception
\* reaches the caller, the lock is free and the tree is as it was; no step of
\* save changes the tree, and with no settings.system in the tree no step
\* changes the file.
C13_SaveNeverRaises ==
    [][\A t \in Threads :
          /\ (op[t] = "save" /\ pc[t] # "done" /\ pc'[t] = "done") =>
                /\ raised'[t] = "none"
                /\ lock' = 0
          /\ (op[t] = "save" /\ pc'[t] # pc[t]) =>
                /\ data' = data
                /\ (~HasSystemSettings(data) => disk' = disk)]_vars

-----------------------------------------------------------------------------
(* ActionSelectionAgent: C14 to C17 *)

\* C14: build_output. For every working mapping and every action name the
\* parsed result chooses: a name that is a key gives the value under it as
\* output (for a mapping parse_actions made, the record of that name); any
\* other name gives the diagnostic string with the name in it; no exception
\* is raised and nothing is logged as an error.
C14_BuildOutput ==
    [][(apc = "build_output" /\ apc' # apc /\ ~SelectRaises(result)) =>
          LET name == Get(result, "action").s
          IN /\ HasKey(actions, name) =>
                    /\ output' = Get(actions, name)
                    /\ ~HasKey(actions, "failed") =>
                          IsDict(output') /\ Get(output', "Name") = Str(name)
             /\ ~HasKey(actions, name) =>
                    output' = Str("The '" \o name \o "' action does not exist. It is very "
                                  \o "likely the agent did not correctly choose an action "
                                  \o "from the given list.")
             /\ exc' = "none"
             /\ log_errors' = log_errors]_vars

\* The chosen name is one of two parsed actions; its record is the output.
C14_Witness ==
    /\ apc = "return"
    /\ result = Dict(<<Pair("action", Str("search"))>>)
    /\ KeySet(actions) = {"search", "browse"}
    /\ output = Get(actions, "search")
    /\ IsDict(output)

\* The first metadata batch of a search result.
HasBatch(found) ==
    /\ IsDict(found)
    /\ ~HasKey(found, "failed")
    /\ HasKey(found, "metadatas")
    /\ Len(Get(found, "metadatas").m) > 0

BatchOf(found) == Get(found, "metadatas").m[1].val.m

NameOf(metadata) == IF HasKey(metadata, "Name") THEN Get(metadata, "Name").s ELSE ""

\* C15: parse_actions. The working mapping has exactly the non-empty Name
\* values of the first batch as keys, each once; each key maps to the record
\* of the last batch entry with that Name, without its timestamp and with
\* every other field as it was; entries without a Name or with an empty one
\* are skipped.
C15_ParseActions ==
    [][(apc = "parse" /\ apc' = "format" /\ HasBatch(actions)) =>
          LET batch == BatchOf(actions)
              names == { NameOf(batch[i].val) : i \in 1..Len(batch) } \ {""}
          IN /\ KeySet(actions') = names
             /\ Len(actions'.m) = Cardinality(names)
             /\ \A n \in names :
                   LET last == CHOOSE i \in 1..Len(batch) :
                                  /\ NameOf(batch[i].val) = n
                                  /\ \A j \in 1..Len(batch) :
                                        NameOf(batch[j].val) = n => j <= i
                       metadata == batch[last].val
                       kept == Get(actions', n)
                   IN /\ KeySet(kept) = KeySet(metadata) \ {"timestamp"}
                      /\ \A field \in KeySet(kept) : Get(kept, field) = Get(metadata, field)]_vars

\* The batch held two records named search, the first with a timestamp; the
\* mapping holds the second.
C15_Witness ==
    /\ apc = "format"
    /\ HasBatch(searched)
    /\ Len(BatchOf(searched)) = 2
    /\ GetOr(BatchOf(searched)[1].val, "Description", None) = Str("web search")
    /\ KeySet(actions) = {"search"}
    /\ Get(actions, "search") =
          Dict(<<Pair("Name", Str("search")), Pair("Description", Str("site search"))>>)

\* The text of the entries from the i-th on, a segment each, "\n" between them.
RECURSIVE SegmentsFrom(_, _)
SegmentsFrom(mapping, i) ==
    IF i > Len(mapping.m) THEN ""
    ELSE "Action: " \o mapping.m[i].key \o "\nDescription: "
            \o (IF HasKey(mapping.m[i].val, "Description")
                THEN Get(mapping.m[i].val, "Description").s
                ELSE "No Description")
            \o "\n"
            \o (IF i < Len(mapping.m) THEN "\n" ELSE "")
            \o SegmentsFrom(mapping, i + 1)

\* C16: format_actions stores in data['action_list'] one segment per entry of
\* the working mapping, in mapping order, a blank line between consecutive
\* segments and nothing else; the single action search / web search gives
\* exactly 'Action: search\nDescription: web search\n', and an action without
\* a description gives 'No Description'.
C16_FormatActions ==
    [][(apc = "format" /\ apc' # apc /\ ~HasKey(actions, "failed")) =>
          /\ action_list' = SegmentsFrom(actions, 1)
          /\ actions = Dict(<<Pair("search",
                                   Dict(<<Pair("Name", Str("search")),
                                          Pair("Description", Str("web search"))>>))>>)
                => action_list' = "Action: search\nDescription: web search\n"
          /\ actions = Dict(<<Pair("browse", Dict(<<Pair("Name", Str("browse"))>>))>>)
                => action_list' = "Action: browse\nDescription: No Description\n"]_vars

\* Two actions, the second without a description, are listed with one blank
\* line between them.
C16_Witness ==
    /\ apc = "generate"
    /\ Keys(actions) = <<"search", "browse">>
    /\ action_list = "Action: search\nDescription: web search\n\n"
                        \o "Action: browse\nDescription: No Description\n"

\* C17: when the search raises during load_actions the protocol degrades to
\* no actions. From then on actions is the empty mapping, no exception is in
\* flight and no stop is signalled or logged; process_data runs its three
\* steps, and after it data['action_list'] is the empty string.
C17_SearchFailureDegrades ==
    searched = Str("raised") =>
        /\ actions = EmptyDict
        /\ exc = "none"
        /\ log_results = 0
        /\ apc # "process_except"
        /\ apc \in {"generate", "parse_result", "build_output", "return", "done"} =>
              /\ action_list = ""
              /\ SubSeq(steps, 1, 4) = <<"load", "stop_check", "parse", "format">>

\* The search raised and process_data is over.
C17_Witness ==
    /\ searched = Str("raised")
    /\ apc = "generate"
    /\ actions = EmptyDict
    /\ action_list = ""
    /\ steps = <<"load", "stop_check", "parse", "format">>

-----------------------------------------------------------------------------
(* Config.find_config and the lookups of load_agent_data and load_flow_data *)

\* What a call gives its caller: a value, or an exception.
Gives(value) == [raised |-> FALSE, error |-> "", message |-> "", value |-> value]

Fails(error, message) == [raised |-> TRUE, error |-> error, message |-> message,
                          value |-> None]

\* search_nested_dict over the items of a mapping: None when nothing is found.
RECURSIVE search_nested_dict(_, _)
search_nested_dict(items, target) ==
    IF items = <<>> THEN None
    ELSE IF Head(items).key = target THEN Head(items).val
    ELSE IF IsDict(Head(items).val)
    THEN LET inner == search_nested_dict(Head(items).val.m, target)
         IN IF inner # None THEN inner
            ELSE search_nested_dict(Tail(items), target)
    ELSE search_nested_dict(Tail(items), target)

\* find_config(category, config_name); a category that is no mapping has no
\* .items().
find_config(tree, category, config_name) ==
    IF ~IsDict(GetOr(tree, category, EmptyDict))
    THEN Fails("AttributeError", "items")
    ELSE Gives(search_nested_dict(GetOr(tree, category, EmptyDict).m, config_name))

\* load_agent_data after reload(): find_config, 'if not agent: raise'.
AgentLookup(tree, agent_name) ==
    LET found == find_config(tree, "prompts", agent_name)
    IN IF found.raised THEN found
       ELSE IF ~Truthy(found.value)
       THEN Fails("FileNotFoundError",
                  "Agent '" \o agent_name \o "' not found in configuration.")
       ELSE found

\* load_flow_data after reload(): find_config, 'if not flow: raise'.
FlowLookup(tree, flow_name) ==
    LET found == find_config(tree, "flows", flow_name)
    IN IF found.raised THEN found
       ELSE IF ~Truthy(found.value)
       THEN Fails("FileNotFoundError",
                  "Flow '" \o flow_name \o "' not found in configuration.")
       ELSE found

\* What the prompts and flows folders may have put in the tree: nothing, a
\* file, a file in a subfolder, a subfolder whose only file is empty (the key
\* get_nested_dict made holds {}), a key left empty inside a file, the same
\* name at two places.
CategoryTrees ==
    { Absent,
      EmptyDict,
      Dict(<<Pair("agent", AgentV1)>>),
      Dict(<<Pair("sub", Dict(<<Pair("agent", AgentV1)>>))>>),
      Dict(<<Pair("sub", EmptyDict)>>),
      Dict(<<Pair("other", Dict(<<Pair("agent", AgentV1)>>)), Pair("agent", AgentV2)>>),
      Dict(<<Pair("first", Dict(<<Pair("agent", None)>>)),
             Pair("second", Dict(<<Pair("agent", AgentV2)>>))>>) }

LookupNames == {"agent", "sub", "ghost"}

LookupTree(prompts, flows) ==
    Dict(<<Pair("settings", Dict(<<Pair("system", SysOff)>>))>>
            \o Opt("prompts", prompts) \o Opt("flows", flows))

LookupInit ==
    /\ AgentStart
    /\ StoreAtRest
    /\ disk = NoFiles
    /\ \E prompts \in CategoryTrees, flows \in {Absent, Dict(<<Pair("agent", AgentV1)>>)} :
            data = LookupTree(prompts, flows)
    /\ agent \in { Str(n) : n \in LookupNames }
    /\ resolved = None
    /\ rpc = "input"

\* load_agent_data(agent.s) as far as its lookup; reload() does not walk.
FindAgent ==
    /\ rpc = "input"
    /\ ReloadOutcome(data) = "skip"
    /\ resolved' = AgentLookup(data, agent.s)
    /\ rpc' = "load_agent_data"
    /\ UNCHANGED <<agentVars, configVars, agent>>

\* load_flow_data(agent.s)
FindFlow ==
    /\ rpc = "input"
    /\ ReloadOutcome(data) = "skip"
    /\ resolved' = FlowLookup(data, agent.s)
    /\ rpc' = "load_flow_data"
    /\ UNCHANGED <<agentVars, configVars, agent>>

LookupNext == FindAgent \/ FindFlow

SpecLookup == LookupInit /\ [][LookupNext]_vars

\* Some key of the mapping, at any depth, equals name.
RECURSIVE KeyAnywhere(_, _)
KeyAnywhere(d, name) ==
    /\ IsDict(d)
    /\ \E i \in 1..Len(d.m) : d.m[i].key = name \/ KeyAnywhere(d.m[i].val, name)

\* The value under the first key equal to name in depth-first order.
RECURSIVE FirstMatch(_, _)
FirstMatch(items, name) ==
    IF Head(items).key = name THEN Head(items).val
    ELSE IF KeyAnywhere(Head(items).val, name) THEN FirstMatch(Head(items).val.m, name)
    ELSE FirstMatch(Tail(items), name)

NotFoundIffNoKey(category, what) ==
    LET subtree == GetOr(data, category, EmptyDict)
    IN IF KeyAnywhere(subtree, agent.s)
       THEN ~resolved.raised /\ resolved.value = FirstMatch(subtree.m, agent.s)
       ELSE /\ resolved.raised
            /\ resolved.error = "FileNotFoundError"
            /\ resolved.message = what \o " '" \o agent.s \o "' not found in configuration."

\* C18: load_agent_data(name) fails with the agent-not-found error if and
\* only if no key equal to name exists in the 'prompts' subtree, and
\* load_flow_data(name) with the flow-not-found error if and only if none
\* exists in the 'flows' subtree; when a key exists the lookup returns the
\* value of the first match in depth-first order.
C18_NotFoundIffNoKey ==
    /\ rpc = "load_agent_data" => NotFoundIffNoKey("prompts", "Agent")
    /\ rpc = "load_flow_data" => NotFoundIffNoKey("flows", "Flow")

-----------------------------------------------------------------------------
(* Config.load_persona *)

\* load_persona(agent) on a tree; the message names the persona looked for.
load_persona(tree, agent_data) ==
    IF ~HasKey(tree, "settings") THEN Fails("KeyError", "settings")
    ELSE LET settings == Get(tree, "settings")
         IN IF ~HasKey(settings, "system") THEN Fails("KeyError", "system")
            ELSE IF ~Truthy(GetOr(Get(settings, "system"), "PersonasEnabled", Bool(FALSE)))
            THEN Gives(None)
            ELSE LET declared == GetOr(agent_data, "Persona", None)
                     persona_file == IF Truthy(declared) THEN declared
                                     ELSE GetOr(Get(settings, "system"), "Persona",
                                                Str("default"))
                 IN IF ~HasKey(GetOr(tree, "personas", EmptyDict), LookupKey(persona_file))
                    THEN Fails("FileNotFoundError",
                               "Selected Persona '"
                                  \o (IF persona_file = None THEN "None" ELSE persona_file.s)
                                  \o "' not found. Please make sure the corresponding "
                                  \o "persona file is in the personas folder")
                    ELSE Gives(Get(Get(tree, "personas"), LookupKey(persona_file)))

\* A value written as a name, left empty, or left out.
PersonaNames == {Absent, None, Str("pirate"), Str("ghost")}

DefaultPersona == Dict(<<Pair("Name", Str("Default Assistant"))>>)

PiratePersona == Dict(<<Pair("Name", Str("Pirate"))>>)

PersonaTrees ==
    { Dict(<<Pair("settings",
                  Dict(<<Pair("system", Dict(Opt("PersonasEnabled", flag)
                                                \o Opt("Persona", name)))>>))>>
              \o Opt("personas", personas)) :
        flag \in {Absent, Bool(TRUE), Bool(FALSE)},
        name \in PersonaNames,
        personas \in { Absent,
                       Dict(<<Pair("default", DefaultPersona)>>),
                       Dict(<<Pair("default", DefaultPersona),
                              Pair("pirate", PiratePersona)>>) } }

PersonaAgents ==
    { Dict(<<Pair("Prompts", Str("hello"))>> \o Opt("Persona", name)) :
        name \in PersonaNames \cup {Str("")} }

PersonaInit ==
    /\ AgentStart
    /\ StoreAtRest
    /\ disk = NoFiles
    /\ data \in PersonaTrees
    /\ agent \in PersonaAgents
    /\ resolved = None
    /\ rpc = "input"

\* One call of load_persona on the drawn tree and agent.
LoadPersona ==
    /\ rpc = "input"
    /\ resolved' = load_persona(data, agent)
    /\ rpc' = "done"
    /\ UNCHANGED <<agentVars, configVars, agent>>

PersonaNext == LoadPersona

SpecPersona == PersonaInit /\ [][PersonaNext]_vars

SystemSettings == Get(Get(data, "settings"), "system")

\* The name a mapping declares under Persona, if any.
Declares(mapping) == HasKey(mapping, "Persona") /\ Truthy(Get(mapping, "Persona"))

\* The persona to look for: the agent's, else the system default, else 'default'.
SelectedPersona ==
    IF Declares(agent) THEN Get(agent, "Persona").s
    ELSE IF Declares(SystemSettings) THEN Get(SystemSettings, "Persona").s
    ELSE "default"

\* C19: load_persona returns no persona when PersonasEnabled is false or
\* absent. When it is true, the persona is the one named by the agent's
\* Persona if it declares any, else by the system default Persona if there is
\* any, else 'default'; its mapping in the 'personas' subtree is returned, and
\* the persona-not-found error is raised when no persona of that name is loaded.
C19_PersonaResolution ==
    rpc = "done" =>
        IF ~(HasKey(SystemSettings, "PersonasEnabled")
                /\ Get(SystemSettings, "PersonasEnabled") = Bool(TRUE))
        THEN ~resolved.raised /\ resolved.value = None
        ELSE IF HasKey(GetOr(data, "personas", EmptyDict), SelectedPersona)
        THEN ~resolved.raised /\ resolved.value = Get(Get(data, "personas"), SelectedPersona)
        ELSE resolved.raised /\ resolved.error = "FileNotFoundError"

-----------------------------------------------------------------------------
(* Config.fix_prompt_placeholders *)

Lower == {"a", "b", "c", "d", "e", "f", "g", "h", "i", "j", "k", "l", "m",
          "n", "o", "p", "q", "r", "s", "t", "u", "v", "w", "x", "y", "z"}

Upper == {"A", "B", "C", "D", "E", "F", "G", "H", "I", "J", "K", "L", "M",
          "N", "O", "P", "Q", "R", "S", "T", "U", "V", "W", "X", "Y", "Z"}

Digits == {"0", "1", "2", "3", "4", "5", "6", "7", "8", "9"}

\* The keys of the prompt trees, character by character.
PromptKeySpellings ==
    { <<"x">>,
      <<"u", "s", "e", "r", "_", "i", "n", "p", "u", "t">>,
      <<"_", "a", "1">>,
      <<"S", "y", "s", "t", "e", "m">>,
      <<"1", "2", "3">>,
      <<"1", "x">>,
      <<"a", "-", "b">>,
      <<>> }

RECURSIVE Join(_)
Join(chars) == IF chars = <<>> THEN "" ELSE Head(chars) \o Join(Tail(chars))

PromptKeys == { Join(chars) : chars \in PromptKeySpellings }

Spell(key) == CHOOSE chars \in PromptKeySpellings : Join(chars) = key

\* A match that may start anywhere and asks for word characters only.
RECURSIVE re_match_any_word(_)
re_match_any_word(chars) ==
    /\ chars # <<>>
    /\ Head(chars) \in Lower \cup Upper \cup Digits \cup {"_"}
    /\ Tail(chars) = <<>> \/ re_match_any_word(Tail(chars))

\* [a-zA-Z0-9_]*$ from position i; Python's $ also matches before a last "\n".
RECURSIVE MatchTail(_, _)
MatchTail(chars, i) ==
    IF i > Len(chars) THEN TRUE
    ELSE IF chars[i] \in Lower \cup Upper \cup Digits \cup {"_"} THEN MatchTail(chars, i + 1)
    ELSE i = Len(chars) /\ chars[i] = "\n"

\* re.match(self.pattern, key) with pattern ^[a-zA-Z_][a-zA-Z0-9_]*$
re_match(chars) ==
    /\ chars # <<>>
    /\ Head(chars) \in Lower \cup Upper \cup {"_"}
    /\ MatchTail(chars, 2)

\* fix_prompt_placeholders(prompts)
RECURSIVE fix_prompt_placeholders(_)
fix_prompt_placeholders(prompts) ==
    IF IsDict(prompts)
    THEN IF /\ Len(prompts.m) = 1
            /\ prompts.m[1].val = None
            /\ re_match(Spell(prompts.m[1].key))
         THEN Str("{" \o prompts.m[1].key \o "}")
         ELSE Dict([i \in 1..Len(prompts.m) |->
                        Pair(prompts.m[i].key, fix_prompt_placeholders(prompts.m[i].val))])
    ELSE IF prompts.k = "list"
    THEN [prompts EXCEPT !.m = [i \in 1..Len(prompts.m) |->
                                   Pair("", fix_prompt_placeholders(prompts.m[i].val))]]
    ELSE IF ~Truthy(prompts) THEN Str("")
    ELSE prompts

\* Prompt trees: leaves, single-key mappings, and mappings and lists of them
\* one and two levels up.
PromptLeaves ==
    { None, Str("text"), Str("") }
        \cup { Dict(<<Pair(key, None)>>) : key \in PromptKeys }
        \cup { Dict(<<Pair("x", Str("text"))>>), Dict(<<Pair("x", Str(""))>>) }

PromptSeconds == { None, Dict(<<Pair("x", None)>>), Dict(<<Pair("123", None)>>) }

PromptBranches ==
    { Dict(<<Pair("System", a)>>) : a \in PromptLeaves }
        \cup { Dict(<<Pair("System", a), Pair("x", b)>>) :
                 a \in PromptLeaves, b \in PromptSeconds }
        \cup { List(<<a, b>>) : a \in PromptLeaves, b \in PromptSeconds }

PromptTrees ==
    PromptLeaves \cup PromptBranches
        \cup { Dict(<<Pair("System", c)>>) : c \in PromptBranches }

PlaceholdersInit ==
    /\ AgentStart
    /\ StoreAtRest
    /\ disk = NoFiles
    /\ data = EmptyDict
    /\ agent \in PromptTrees
    /\ resolved = None
    /\ rpc = "input"

\* One call of fix_prompt_placeholders on the drawn tree.
FixPrompts ==
    /\ rpc = "input"
    /\ resolved' = Gives(fix_prompt_placeholders(agent))
    /\ rpc' = "done"
    /\ UNCHANGED <<agentVars, configVars, agent>>

PlaceholdersNext == FixPrompts

SpecPlaceholders == PlaceholdersInit /\ [][PlaceholdersNext]_vars

\* The key is a letter or underscore followed by letters, digits, underscores.
IsIdentifier(key) ==
    LET chars == Spell(key)
    IN /\ Len(chars) >= 1
       /\ chars[1] \in Lower \cup Upper \cup {"_"}
       /\ \A i \in 2..Len(chars) : chars[i] \in Lower \cup Upper \cup Digits \cup {"_"}

\* What the claim asks of the result for one tree, at every depth.
RECURSIVE Normalized(_, _)
Normalized(before, after) ==
    IF IsDict(before)
    THEN IF /\ Len(before.m) = 1
            /\ before.m[1].val = None
            /\ IsIdentifier(before.m[1].key)
         THEN after = Str("{" \o before.m[1].key \o "}")
         ELSE /\ IsDict(after)
              /\ Keys(after) = Keys(before)
              /\ \A i \in 1..Len(before.m) : Normalized(before.m[i].val, after.m[i].val)
    ELSE IF before.k = "list"
    THEN /\ after.k = "list"
         /\ Len(after.m) = Len(before.m)
         /\ \A i \in 1..Len(before.m) : Normalized(before.m[i].val, after.m[i].val)
    ELSE ~IsDict(after)

-----------------------------------------------------------------------------
(* What a completed load leaves in the tree: C21 *)

\* The value found by following the keys of path from tree, Absent when a key
\* is missing or a value on the way is no mapping.
RECURSIVE AtPath(_, _)
AtPath(tree, path) ==
    IF path = <<>> THEN tree
    ELSE IF IsDict(tree) /\ HasKey(tree, Head(path))
    THEN AtPath(Get(tree, Head(path)), Tail(path))
    ELSE Absent

\* The key path of a file: its directory nesting, then its name without extension.
FilePath(slot) == Append(slot.dir, slot.name)

\* A load_all_configurations of thread t, called directly or by __init__, has
\* returned.
LoadCompleted(t) ==
    /\ pc[t] = "done"
    /\ op[t] \in {"construct", "load_all_configurations"}
    /\ raised[t] = "none"

\* C21: after load_all_configurations completes, for every file with
\* extension .yaml or .yml under the sentinel directory the tree holds, at the
\* mapping path of the file's directory nesting, a key equal to the file name
\* without extension whose value is the file's parsed content, also when that
\* content is an empty mapping.
C21_EveryFileInTree ==
    \A t \in Threads :
        LoadCompleted(t) =>
            \A j \in Slots :
                (disk[j] \notin {Absent, Invalid} /\ IsYaml(FileSlots[j])) =>
                    AtPath(data, FilePath(FileSlots[j])) = disk[j]

-----------------------------------------------------------------------------
(* load_agent_data and the bundle its caller keeps: C22 *)

\* settings/models.yaml
ModelsFile ==
    Dict(<<Pair("ModelSettings",
                Dict(<<Pair("API", Str("openai")), Pair("Model", Str("gpt")),
                       Pair("Params", ParamsOf({1}, "default"))>>)),
           Pair("ModelLibrary", EmptyDict)>>)

AgentName == "agent"

\* load_agent_data after reload(): the bundle, or the exception raised on the
\* way. 'settings' is self.data.get('settings', {}), the mapping object the
\* tree holds under that key (live: it still is that object); params and
\* prompts are built anew, persona is the parsed content of one file. llm and
\* debugging_text are left out.
MakeBundle(tree, agent_name) ==
    LET found == AgentLookup(tree, agent_name)
    IN IF found.raised THEN found
       ELSE IF ~IsDict(found.value) THEN Fails("AttributeError", "get")
       ELSE IF ~(/\ HasKey(tree, "settings")
                 /\ IsDict(Get(tree, "settings"))
                 /\ HasKey(Get(tree, "settings"), "models")
                 /\ IsDict(Get(Get(tree, "settings"), "models"))
                 /\ HasKey(Get(Get(tree, "settings"), "models"), "ModelSettings")
                 /\ HasKey(Get(Get(tree, "settings"), "models"), "ModelLibrary")
                 /\ HasKey(Get(tree, "settings"), "system")
                 /\ IsDict(Get(Get(tree, "settings"), "system")))
       THEN Fails("KeyError", "settings")
       ELSE LET over == resolve_model_overrides(tree, found.value)
                persona_data == load_persona(tree, found.value)
                prompts == fix_prompt_placeholders(GetOr(found.value, "Prompts", EmptyDict))
                fields == [settings |-> Get(tree, "settings"),
                           params |-> over.params,
                           persona |-> persona_data.value,
                           prompts |-> prompts]
            IN IF over.raised THEN Fails(over.error, "")
               ELSE IF persona_data.raised THEN persona_data
               ELSE Gives([live |-> TRUE,
                           settings |-> fields.settings,
                           params |-> fields.params,
                           persona |-> fields.persona,
                           prompts |-> fields.prompts,
                           returned |-> fields])

\* load_agent_data: everything after reload(), read from the tree as it is.
LoadAgentData(t) ==
    /\ pc[t] = "lookup"
    /\ op[t] = "load_agent_data"
    /\ LET made == MakeBundle(data, AgentName)
       IN IF made.raised
          THEN /\ Finish(t, made.error)
               /\ UNCHANGED bundle
          ELSE /\ Finish(t, "none")
               /\ bundle' = [bundle EXCEPT ![t] = made.value]
    /\ UNCHANGED <<storeVars, disk, sentinels, op, root_path, self, ref, idx,
                   existing_data, first_tree, loads, file_read>>
    /\ Outside

\* The file stored by this step becomes the tree's new 'settings' object.
Rebinds(slot, content) ==
    /\ slot.dir = <<>>
    /\ slot.name = "settings"
    /\ IsYaml(slot)
    /\ Truthy(load_yaml_file(content))

\* A bundle after one file of a walk: while its settings is the object the
\* tree holds, nested_dict[filename_without_ext] = data stores into that very
\* object; once the tree holds another object the bundle's one is left alone.
Seen(held, tree, rebinds) ==
    IF held = None THEN held
    ELSE IF ~held.live THEN held
    ELSE IF rebinds THEN [held EXCEPT !.live = FALSE]
    ELSE [held EXCEPT !.settings = Get(tree, "settings")]

\* One file of thread t's walk, as the holders of bundles see it.
Shared(t) ==
    /\ bundle' = [u \in Threads |->
                     Seen(bundle[u], data',
                          /\ pc'[t] = "walk"
                          /\ Rebinds(FileSlots[NextSlot(disk, idx[t])],
                                     disk[NextSlot(disk, idx[t])]))]
    /\ UNCHANGED <<first_tree, loads, file_read>>

BundleDisk ==
    [NoFiles EXCEPT ![SystemSlot] = SysOn, ![ModelsSlot] = ModelsFile, ![AgentSlot] = AgentV1]

\* One thread has constructed the store from the files; every thread holds it.
BundleInit ==
    /\ lock = 0
    /\ instance = 1
    /\ objects = 1
    /\ is_initialized = TRUE
    /\ project_root = find_project_root("", {"/proj", "/other"})
    /\ config_path = ConfigPath(find_project_root("", {"/proj", "/other"}))
    /\ built = TRUE
    /\ sentinels = {"/proj", "/other"}
    /\ disk = BundleDisk
    /\ data = LoadAllFrom(EmptyDict, disk, 0)
    /\ pc = [t \in Threads |-> "idle"]
    /\ op = [t \in Threads |-> "none"]
    /\ root_path = [t \in Threads |-> ""]
    /\ self = [t \in Threads |-> 0]
    /\ ref = [t \in Threads |-> 1]
    /\ idx = [t \in Threads |-> 0]
    /\ existing_data = [t \in Threads |-> None]
    /\ raised = [t \in Threads |-> "none"]
    /\ first_tree = None
    /\ loads = 0
    /\ file_read = [t \in Threads |-> None]
    /\ bundle = [t \in Threads |-> None]
    /\ Rest

BundleNext ==
    \/ \E t \in Threads, what \in {"reload", "load_agent_data"} : CallReload(t, what) /\ Quiet
    \/ \E t \in Threads : ReloadCheck(t) /\ Quiet
    \/ \E t \in Threads : CallLoadAll(t) /\ Quiet
    \/ \E t \in Threads : LoadEnter(t) /\ Quiet
    \/ \E t \in Threads : WalkFile(t) /\ Shared(t)
    \/ \E t \in Threads : WalkEnd(t) /\ Quiet
    \/ \E t \in Threads : LoadAgentData(t)
    \/ \E t \in Threads : Return(t) /\ Quiet
    \/ \E j \in Slots : \E content \in Editions(j) : EditFile(j, content) /\ Quiet

SpecBundle == BundleInit /\ [][BundleNext]_vars

\* C22: the bundle load_agent_data returned is an immutable snapshot. After
\* it is returned no later reload, load_all_configurations, load_agent_data
\* or load_flow_data, with any change of the files, changes a value reachable
\* from its settings, params, persona or prompts.
C22_BundleIsSnapshot ==
    \A t \in Threads :
        bundle[t] # None =>
            /\ bundle[t].settings = bundle[t].returned.settings
            /\ bundle[t].params = bundle[t].returned.params
            /\ bundle[t].persona = bundle[t].returned.persona
            /\ bundle[t].prompts = bundle[t].returned.prompts

-----------------------------------------------------------------------------
(* Loads over files that are rewritten, emptied, damaged or deleted: C23, C27 *)

\* What may be found in a file at a later load.
Damages(j) ==
    CASE j = SystemSlot -> {SysOn, SysOff, Invalid}
      [] j = AgentSlot -> {AgentV1, AgentV2, Invalid, None, Absent}
      [] OTHER -> {}

\* The directory at the first load, with or without a settings.yaml beside
\* the settings folder (a mapping, or a scalar).
RewalkDisks ==
    { [NoFiles EXCEPT ![1] = root, ![SystemSlot] = SysOn, ![AgentSlot] = AgentV1] :
        root \in {Absent, RootSettings, Str("text")} }

\* __init__ of thread 1 is about to call load_all_configurations (data = {});
\* the other threads' Config() calls have returned the instance already.
RewalkInit ==
    /\ lock = 0
    /\ instance = 1
    /\ objects = 1
    /\ is_initialized = TRUE
    /\ project_root = find_project_root("", {"/proj", "/other"})
    /\ config_path = ConfigPath(find_project_root("", {"/proj", "/other"}))
    /\ built = FALSE
    /\ sentinels = {"/proj", "/other"}
    /\ disk \in RewalkDisks
    /\ data = EmptyDict
    /\ pc = [t \in Threads |-> IF t = 1 THEN "load_lock" ELSE "idle"]
    /\ op = [t \in Threads |-> IF t = 1 THEN "construct" ELSE "none"]
    /\ root_path = [t \in Threads |-> ""]
    /\ self = [t \in Threads |-> IF t = 1 THEN 1 ELSE 0]
    /\ ref = [t \in Threads |-> IF t = 1 THEN 0 ELSE 1]
    /\ idx = [t \in Threads |-> 0]
    /\ existing_data = [t \in Threads |-> None]
    /\ raised = [t \in Threads |-> "none"]
    /\ first_tree = None
    /\ loads = 0
    /\ file_read = [t \in Threads |-> None]
    /\ bundle = [t \in Threads |-> None]
    /\ Rest

RewalkNext ==
    \/ \E t \in Threads : loads < MaxLoads /\ CallLoadAll(t) /\ Quiet
    \/ \E t \in Threads : LoadEnter(t) /\ Quiet
    \/ \E t \in Threads : WalkFile(t) /\ pc'[t] = "walk" /\ Quiet
    \/ \E t \in Threads : WalkFile(t) /\ pc'[t] = "done" /\ Counted
    \/ \E t \in Threads : WalkEnd(t) /\ Counted
    \/ \E t \in Threads : Return(t) /\ Quiet
    \/ \E j \in Slots : \E content \in Damages(j) : EditFile(j, content) /\ Quiet

SpecRewalk == RewalkInit /\ [][RewalkNext]_vars

\* Mappings a and b agree on every key outside path.
RECURSIVE OnlyAt(_, _, _)
OnlyAt(a, b, path) ==
    IF path = <<>> \/ a = b THEN TRUE
    ELSE /\ IsDict(a)
         /\ IsDict(b)
         /\ \A key \in (KeySet(a) \cup KeySet(b)) \ {Head(path)} :
                HasKey(a, key) /\ HasKey(b, key) /\ Get(a, key) = Get(b, key)
         /\ HasKey(a, Head(path)) => HasKey(b, Head(path))
         /\ HasKey(b, Head(path)) =>
                OnlyAt(GetOr(a, Head(path), EmptyDict), Get(b, Head(path)), Tail(path))

\* Thread t's walk handles a file in this step.
HandlesFile(t) ==
    /\ pc[t] = "walk"
    /\ NextSlot(disk, idx[t]) # 0
    /\ idx'[t] # idx[t] \/ pc'[t] # "walk"

\* C23: each file load is atomic and local. During a load or reload a file
\* that fails to parse changes nothing in the tree, and loading any one file
\* changes only the key derived from that file: every sibling key and every
\* other subtree is as before.
C23_FileLoadLocal ==
    [][\A t \in Threads :
          HandlesFile(t) =>
              LET j == NextSlot(disk, idx[t])
              IN IF ~IsYaml(FileSlots[j]) \/ disk[j] = Invalid
                 THEN data' = data
                 ELSE OnlyAt(data, data', FilePath(FileSlots[j]))]_vars

\* Mappings nested one in the other along path, with no other key.
RECURSIVE EmptyChain(_, _)
EmptyChain(b, path) ==
    IF path = <<>> THEN b = EmptyDict
    ELSE /\ IsDict(b)
         /\ KeySet(b) = {Head(path)}
         /\ EmptyChain(Get(b, Head(path)), Tail(path))

\* b is a with, at most, empty mappings added for the directories of path
\* that a did not hold.
RECURSIVE AddsOnlyEmpty(_, _, _)
AddsOnlyEmpty(a, b, path) ==
    IF path = <<>> \/ a = b THEN a = b
    ELSE /\ IsDict(a)
         /\ IsDict(b)
         /\ \A key \in (KeySet(a) \cup KeySet(b)) \ {Head(path)} :
                HasKey(a, key) /\ HasKey(b, key) /\ Get(a, key) = Get(b, key)
         /\ HasKey(a, Head(path)) =>
                /\ HasKey(b, Head(path))
                /\ AddsOnlyEmpty(Get(a, Head(path)), Get(b, Head(path)), Tail(path))
         /\ (~HasKey(a, Head(path)) /\ HasKey(b, Head(path))) =>
                EmptyChain(Get(b, Head(path)), Tail(path))

\* C23 as amended: during a load or reload a file that fails to parse
\* changes no key the tree holds and no value, its own key included; at most
\* it adds empty mappings for the directories of its path that the tree did
\* not hold yet. Loading any one file changes only the key derived from that
\* file: every sibling key and every other subtree is as before.
C23_FileLoadLocalAmended ==
    [][\A t \in Threads :
          HandlesFile(t) =>
              LET j == NextSlot(disk, idx[t])
              IN IF ~IsYaml(FileSlots[j]) THEN data' = data
                 ELSE IF disk[j] = Invalid
                 THEN AddsOnlyEmpty(data, data', FileSlots[j].dir)
                 ELSE OnlyAt(data, data', FilePath(FileSlots[j]))]_vars

\* Two loads have ended. The second found a rewritten system.yaml and stored
\* it; agent.yaml is unparsable and the tree holds the agent of the first load.
C23_Witness ==
    /\ loads >= 2
    /\ lock = 0
    /\ disk[SystemSlot] = SysOff
    /\ disk[AgentSlot] = Invalid
    /\ AtPath(first_tree, <<"settings", "system">>) = SysOn
    /\ AtPath(data, <<"settings", "system">>) = SysOff
    /\ AtPath(first_tree, <<"prompts", "agent">>) = AgentV1
    /\ AtPath(data, <<"prompts", "agent">>) = AgentV1

\* The key paths of a tree, at every depth.
RECURSIVE KeyPaths(_)
KeyPaths(tree) ==
    IF ~IsDict(tree) THEN {}
    ELSE UNION { {<<key>>} \cup { <<key>> \o path : path \in KeyPaths(Get(tree, key)) } :
                   key \in KeySet(tree) }

\* C27: the tree only grows. Across loads and changes on disk, every key path
\* present in the tree before a load is still present after it; a file
\* deleted, emptied or made unparsable keeps its loaded value in the tree.
C27_TreeOnlyGrows ==
    (loads >= 2 /\ lock = 0) => KeyPaths(first_tree) \subseteq KeyPaths(data)

-----------------------------------------------------------------------------
(* Config.find_project_root on drawn directories: C24 *)

\* The directories of the machine.
Dirs == {"/", "/proj", "/proj/app", "/other", "/tmp"}

\* Nothing is constructed; any of the directories may hold a .agentforge
\* folder, and the call passes no root_path or one of RootArgs.
RootInit ==
    /\ AgentStart
    /\ lock = 0
    /\ instance = 0
    /\ objects = 0
    /\ is_initialized = FALSE
    /\ project_root = "unset"
    /\ config_path = "unset"
    /\ built = FALSE
    /\ sentinels \in SUBSET Dirs
    /\ pc = [t \in Threads |-> "idle"]
    /\ op = [t \in Threads |-> "none"]
    /\ root_path = [t \in Threads |-> ""]
    /\ self = [t \in Threads |-> 0]
    /\ ref = [t \in Threads |-> 0]
    /\ idx = [t \in Threads |-> 0]
    /\ existing_data = [t \in Threads |-> None]
    /\ raised = [t \in Threads |-> "none"]
    /\ first_tree = None
    /\ loads = 0
    /\ file_read = [t \in Threads |-> None]
    /\ bundle = [t \in Threads |-> None]
    /\ disk = NoFiles
    /\ data = Absent
    /\ agent \in { Str(root) : root \in RootArgs }
    /\ resolved = None
    /\ rpc = "input"

\* One call of find_project_root(root_path).
FindRoot ==
    /\ rpc = "input"
    /\ resolved' = LET found == find_project_root(agent.s, sentinels)
                   IN IF found = NotFound THEN Fails(NotFound, "") ELSE Gives(Str(found))
    /\ rpc' = "done"
    /\ UNCHANGED <<agentVars, configVars, agent>>

RootNext == FindRoot

SpecRoot == RootInit /\ [][RootNext]_vars

\* The directories from d up to and including the filesystem root.
RECURSIVE ChainFrom(_)
ChainFrom(d) == IF Parent(d) = d THEN <<d>> ELSE <<d>> \o ChainFrom(Parent(d))

\* The nearest directory of the chain that holds the sentinel directory.
Nearest(chain) ==
    chain[CHOOSE i \in 1..Len(chain) :
              /\ chain[i] \in sentinels
              /\ \A h \in 1..(i - 1) : chain[h] \notin sentinels]

\* C24: with no supplied root, the nearest directory on the chain from the
\* starting directory up to and including the filesystem root that holds the
\* sentinel directory is returned, and the root-not-found error is raised only
\* if none on the chain holds it; a supplied root is returned if it holds the
\* sentinel directory, and otherwise the call fails without walking upward.
C24_RootResolution ==
    rpc = "done" =>
        IF agent.s = ""
        THEN IF \E i \in 1..Len(ChainFrom(ScriptDir)) : ChainFrom(ScriptDir)[i] \in sentinels
             THEN ~resolved.raised /\ resolved.value = Str(Nearest(ChainFrom(ScriptDir)))
             ELSE resolved.raised /\ resolved.error = NotFound
        ELSE IF agent.s \in sentinels
             THEN ~resolved.raised /\ resolved.value = Str(agent.s)
             ELSE resolved.raised /\ resolved.error = NotFound

-----------------------------------------------------------------------------
(* Concurrent first construction: C25, C26 *)

\* Thread t is inside the body of __init__: past the hasattr test, up to the
\* end of the initial load.
InBody(t) ==
    /\ op[t] \in {"construct", "reconstruct"}
    /\ pc[t] \in {"init_set", "init_root", "load_lock", "walk"}

\* A construction call of thread t has returned the instance.
Constructed(t) ==
    /\ op[t] \in {"construct", "reconstruct"}
    /\ pc[t] = "done"
    /\ raised[t] = "none"

\* C25: no construction call returns the instance before the initial load has
\* completed. Under threads constructing concurrently for the first time the
\* body of __init__ (root resolution and the initial load) runs once, and a
\* thread that did not run it does not get the instance back while
\* project_root or data are unset or the first walk is in progress.
C25_NoEarlyInstance ==
    /\ \A t \in Threads, u \in Threads : (InBody(t) /\ InBody(u)) => t = u
    /\ \A t \in Threads :
          Constructed(t) =>
              /\ project_root # "unset"
              /\ data # Absent
              /\ built
              /\ \A u \in Threads : ~InBody(u)

\* A construction call has raised the root-not-found error, no thread is in
\* the body of __init__, and no root has been set.
FirstFailed ==
    /\ \E u \in Threads : op[u] = "construct" /\ pc[u] = "done" /\ raised[u] = NotFound
    /\ \A w \in Threads : ~InBody(w)
    /\ project_root = "unset"

\* C26: a failed first construction is permanent. Once the first construction
\* has raised because no project root was found, every later construction
\* call, whatever root_path it passes, returns the same instance without
\* running root resolution or the initial load, and the instance stays
\* without project_root, config_path and data.
C26_FailedConstructionPermanent ==
    [][FirstFailed =>
          /\ project_root' = "unset"
          /\ config_path' = "unset"
          /\ data' = Absent
          /\ \A t \in Threads :
                /\ ~InBody(t)'
                /\ (pc[t] # "done" /\ pc'[t] = "done") =>
                      /\ raised'[t] = "none"
                      /\ instance # 0
                      /\ ref'[t] = instance]_vars

\* One thread's construction has raised; another, which passed a root that
\* holds .agentforge, has got the instance, and the store has no root or tree.
C26_Witness ==
    \E u \in Threads, t \in Threads :
        /\ op[u] = "construct" /\ pc[u] = "done" /\ raised[u] = NotFound
        /\ Constructed(t)
        /\ root_path[t] = "/other"
        /\ ref[t] = instance
        /\ instance # 0
        /\ is_initialized
        /\ project_root = "unset"
        /\ config_path = "unset"
        /\ data = Absent

-----------------------------------------------------------------------------
(* The lock under fair scheduling: C28 *)

\* A directory that loads, and one where a scalar settings.yaml beside the
\* settings folder makes the walk raise.
LockDisks ==
    { [NoFiles EXCEPT ![1] = root, ![SystemSlot] = SysOn, ![AgentSlot] = AgentV1] :
        root \in {Absent, Str("text")} }

LockInit ==
    /\ StoreAtRest
    /\ data = Absent
    /\ disk \in LockDisks
    /\ Rest

\* 'with' on Config._lock: the thread waits until the lock is free.
Acquire(t) == (NewEnter(t) \/ LoadEnter(t) \/ SaveEnter(t)) /\ Quiet

\* The steps of a thread that is running an operation and is not waiting.
Progress(t) ==
    /\ \/ NewCheck(t) \/ NewCreate(t) \/ NewExit(t) \/ NewReturn(t)
       \/ InitCheck(t) \/ InitSet(t) \/ InitRoot(t)
       \/ WalkFile(t) \/ WalkEnd(t)
       \/ SaveRead(t) \/ SaveWrite(t)
       \/ \E outcome \in DumpOutcomes : SaveDump(t, outcome)
    /\ Quiet

LockNext ==
    \/ \E t \in Threads : CallConfig(t, "") /\ Quiet
    \/ \E t \in Threads : NewEnter(t) /\ Quiet
    \/ \E t \in Threads : NewCheck(t) /\ Quiet
    \/ \E t \in Threads : NewCreate(t) /\ Quiet
    \/ \E t \in Threads : NewExit(t) /\ Quiet
    \/ \E t \in Threads : NewReturn(t) /\ Quiet
    \/ \E t \in Threads : InitCheck(t) /\ Quiet
    \/ \E t \in Threads : InitSet(t) /\ Quiet
    \/ \E t \in Threads : InitRoot(t) /\ Quiet
    \/ \E t \in Threads : CallLoadAll(t) /\ Quiet
    \/ \E t \in Threads : LoadEnter(t) /\ Quiet
    \/ \E t \in Threads : WalkFile(t) /\ Quiet
    \/ \E t \in Threads : WalkEnd(t) /\ Quiet
    \/ \E t \in Threads : CallSave(t) /\ Quiet
    \/ \E t \in Threads : SaveEnter(t) /\ Quiet
    \/ \E t \in Threads : SaveRead(t) /\ Quiet
    \/ \E t \in Threads : SaveWrite(t) /\ Quiet
    \/ \E t \in Threads, outcome \in DumpOutcomes : SaveDump(t, outcome) /\ Quiet
    \/ \E t \in Threads : Return(t) /\ Quiet

\* A running thread goes on running; a thread that waits for the lock and
\* finds it free again and again gets it.
SpecLock ==
    /\ LockInit
    /\ [][LockNext]_vars
    /\ \A t \in Threads : WF_vars(Progress(t)) /\ SF_vars(Acquire(t))

\* Thread t waits at a 'with' on the lock.
Waiting(t) == pc[t] \in {"new_lock", "load_lock", "save_lock"}

====
